---- MODULE Spec2Model ----
(***************************************************************************)
(* Model of mysql-data-generator.                                          *)
(*                                                                         *)
(* The repository holds several variant programs that share helpers:       *)
(*   - the worker-pool variant   (src/unnamed/part_001, lines 428-815)     *)
(*   - the row-semaphore variant (src/unnamed/part_001, lines 1-426)       *)
(*   - the table-semaphore variant (src/main.go)                           *)
(*   - the batch variant         (src/unnamed/part_000)                    *)
(*                                                                         *)
(* Spec       : one run of the worker-pool variant (generateData and the   *)
(*              goroutines it starts) against a database.                  *)
(* SpecParse  : parseSize of each variant applied to a size string, and    *)
(*              the round trip through formatSize.                         *)
(* SpecFormat : formatSize applied to a byte count.                        *)
(* SpecTask   : one insert task of the row-semaphore variant.              *)
(* SpecProbe  : getDatabaseSize of the worker-pool and the row-semaphore   *)
(*              variant, statement by statement.                           *)
(* SpecProvision : provisioning and the baseline reading of the            *)
(*              worker-pool variant, from any starting schema.             *)
(* SpecSem    : one run of the row-semaphore variant.                      *)
(* SpecRuns   : one run of either of the two.                              *)
(* SpecFair   : the worker-pool run under fair scheduling.                 *)
(* SpecSemFair: the row-semaphore run under fair scheduling.               *)
(* SpecBatch  : one run of the batch variant.                              *)
(***************************************************************************)
EXTENDS Integers, Sequences, FiniteSets

VARIABLES
    \* ---- configuration (opt, package level) -------------------------
    size,          \* opt.size: the size string, a sequence of characters
    overwrite,     \* opt.overwrite
    concurrency,   \* opt.concurrency
    tableNumber,   \* opt.tableNumber
    \* ---- the database server --------------------------------------
    dbExists,      \* the target schema exists
    tables,        \* indices i such that table{i} exists in the schema
    dbSize,        \* SUM(data_length + index_length) of the schema
    emptyBytes,    \* data_length + index_length the server reports for a
                   \* table without rows (a property of its storage engine)
    dbAtStart,     \* the schema as the process found it (history)
    events,        \* statements and connections issued so far (history)
    \* ---- generateData (worker-pool variant) ------------------------
    ctl,           \* position of generateData / main
    tableIdx,      \* loop variable i of the create-tables loop
    launched,      \* loop variable i of the worker launch loop
    desiredAmount, \* result of parseSize
    initialSize,   \* baseline reading
    finalSize,     \* curSize of generateData: the final reading
    bytesInserted, \* curSize - initialSize as given to the summary
    provErr,       \* the error a provisioning call returned ("none" if none)
    genErr,        \* the error generateData returned after provisioning
    printed,       \* what generateData or monitorProgress printed last
    exitStatus,    \* process exit status (-1 while running)
    cancelled,     \* ctx is cancelled
    \* ---- insertRows goroutines -------------------------------------
    wpc,           \* position of each worker
    wtbl,          \* tableName of the statement in flight (-1: none in flight)
    rows,          \* number of INSERT statements that succeeded
    werr,          \* err of the worker's last db.Exec, until its next select
    \* ---- monitorProgress goroutine ---------------------------------
    mpc,           \* position of the monitor
    ticks,         \* ticks received from the 1 s ticker
    curSize,       \* curSize of monitorProgress: last successful reading
    previousSize,  \* previousSize of monitorProgress
    \* ---- parseSize runs (SpecParse) --------------------------------
    variant,       \* which program's parseSize is applied
    pres,          \* its outcome, or NotRun
    \* ---- formatSize runs (SpecFormat, SpecParse) -------------------
    fin,           \* the byte count given to formatSize
    fstr,          \* the string it returned (empty before the call)
    rt,            \* outcome of parseSize on that string, or NotRun
    \* ---- insert tasks of the row-semaphore variant (SpecTask) -------
    tpc,           \* position of each insert task
    try,           \* loop variable try of the task: backoffs completed
    tLast,         \* what the task's last insertRow returned
    tTable,        \* tableName of the task (index of the table)
    attempts,      \* number of insertRow calls the task has made
    tPrinted,      \* the task has printed "Failed to insert a row"
    outerErr,      \* err of generateData, which the task's closure reads
    activeWorkers, \* activeWorkers
    maxActiveWorkers, \* maxActiveWorkers
    seats,         \* number of elements in the workerLimiter channel
    \* ---- getDatabaseSize ---------------------------------------------
    refreshed,     \* indices of the tables named by the last CHECK TABLE
    ppc,           \* position of the call of getDatabaseSize (SpecProbe)
    pstmts,        \* statements the call has issued, each with its outcome
    pret,          \* what the call returned, or NoReturn
    unclosed,      \* result sets of db that were returned and never closed:
                   \* each holds a connection of the pool
    \* ---- generateData (batch variant) -------------------------------
    remainingSize, \* remainingSize
    rowNumber,     \* rowNumber given to the table tasks of the batch
    btask,         \* position of each table task of the batch
    batches,       \* number of batches started (history)
    plannedRows    \* sum of rowNumber over all table tasks started (history)

vars == <<size, overwrite, concurrency, tableNumber, dbExists, tables, dbSize,
          events, ctl, tableIdx, launched, desiredAmount, initialSize,
          finalSize, bytesInserted, provErr, genErr, printed, exitStatus,
          cancelled, wpc, wtbl, rows, werr, mpc, ticks, curSize, previousSize, variant, pres,
          fin, fstr, rt, tpc, try, tLast, tTable, attempts, tPrinted,
          outerErr, activeWorkers, maxActiveWorkers, seats, emptyBytes,
          dbAtStart, refreshed, ppc, pstmts, pret, unclosed, remainingSize,
          rowNumber, btask, batches, plannedRows>>

cfgVars  == <<size, overwrite, concurrency, tableNumber>>
dbVars   == <<dbExists, tables, dbSize>>
ctlVars  == <<ctl, tableIdx, launched, desiredAmount, initialSize, finalSize,
              bytesInserted, provErr, genErr, exitStatus>>
wrkVars  == <<wpc, wtbl, rows, werr>>
monVars  == <<mpc, ticks, curSize, previousSize>>
prsVars  == <<variant, pres>>
fmtVars  == <<fin, fstr, rt>>
tskVars  == <<tpc, try, tLast, tTable, attempts, tPrinted, outerErr,
              activeWorkers, maxActiveWorkers, seats>>
othVars  == <<fmtVars, tskVars>>
prbVars  == <<ppc, pstmts, pret, unclosed>>
batVars  == <<remainingSize, rowNumber, btask, batches, plannedRows>>
envVars  == <<emptyBytes, dbAtStart>>

----------------------------------------------------------------------------
(* Bounds of the model *)

MaxMagLen == 3
MaxUnitLen == 2
MaxConcurrency == 2
MaxTables == 2
MaxRows == 3
MaxTicks == 3
RowBytes == 512
PreBytes == 1024
MaxTasks == 2
FormatSpread == 8
EmptyTableBytes == 16384
MaxBusy == 1

(* Program constants *)

OneKB == 1024
OneMB == 1048576
OneGB == 1073741824
MaxTries == 100
TickSeconds == 5
PayloadBytes == 524288
quarterGB == 102400

----------------------------------------------------------------------------
(* Strings are sequences of one-character strings. *)

MagChars  == {"0", "1", ".", "-"}
UnitChars == {"K", "M", "G", "B", "X", "i"}

SeqsUpTo(S, n) == UNION {[1..k -> S] : k \in 0..n}


Digits == {"0", "1", "2", "3", "4", "5", "6", "7", "8", "9"}

DigitVal(c) ==
    CASE c = "0" -> 0 [] c = "1" -> 1 [] c = "2" -> 2 [] c = "3" -> 3
      [] c = "4" -> 4 [] c = "5" -> 5 [] c = "6" -> 6 [] c = "7" -> 7
      [] c = "8" -> 8 [] c = "9" -> 9

Pow10(n) == IF n = 0 THEN 1 ELSE IF n = 1 THEN 10 ELSE IF n = 2 THEN 100
            ELSE IF n = 3 THEN 1000 ELSE 10000

Drop(s, n) == SubSeq(s, n + 1, Len(s))
Take(s, n) == SubSeq(s, 1, n)

\* value of a sequence of decimal digits (0 for the empty sequence)
RECURSIVE DecVal(_)
DecVal(s) == IF s = <<>> THEN 0
             ELSE 10 * DecVal(Take(s, Len(s) - 1)) + DigitVal(s[Len(s)])

\* the digits of a magnitude before its period, an optional sign skipped
IntDigits(m) ==
    LET body == IF m # <<>> /\ m[1] = "-" THEN Drop(m, 1) ELSE m
        n    == CHOOSE k \in 0..Len(body) :
                  /\ \A i \in 1..k : body[i] \in Digits
                  /\ (k < Len(body) => body[k + 1] \notin Digits)
    IN  Take(body, n)

\* The size strings of the model: a magnitude part followed by a unit part.
\* Sizes of 2 GB and more are left out: their byte counts, which fit the
\* 64-bit int of the program, do not fit the integers of the model checker.
SizeStrings ==
    {m \o u : <<m, u>> \in
        {mu \in SeqsUpTo(MagChars, MaxMagLen) \X SeqsUpTo(UnitChars, MaxUnitLen) :
            (mu[2] # <<>> /\ mu[2][1] = "G") => DecVal(IntDigits(mu[1])) <= 1}}

----------------------------------------------------------------------------
(* fmt.Sscanf(opt.size, "%f%s", &amount, &unit)                            *)

\* (s *ss) accept: consume the next character if it is in set; p is the
\* number of characters consumed so far
Accept(s, p, set) == IF p < Len(s) /\ s[p + 1] \in set THEN p + 1 ELSE p

\* for s.accept(digits) {}
RECURSIVE AcceptRun(_, _, _)
AcceptRun(s, p, set) ==
    IF Accept(s, p, set) = p THEN p ELSE AcceptRun(s, p + 1, set)

\* (s *ss) floatToken: the length of the token taken from the front of s.
\* Sign, a leading "i" (the start of "inf"), digits, a period and digits.
\* The NaN, hexadecimal, underscore and exponent forms need characters
\* (n, a, x, _, e, p) that the size strings of the model do not contain.
floatToken(s) ==
    LET p1 == Accept(s, 0, {"+", "-"})
        p2 == Accept(s, p1, {"i", "I"})
        p3 == AcceptRun(s, p2, Digits)
        p4 == Accept(s, p3, {"."})
        p5 == IF p4 > p3 THEN AcceptRun(s, p4, Digits) ELSE p4
    IN  p5

\* strconv.ParseFloat on a token made of sign, "i", digits and a period:
\* [sign] digits [. digits] with at least one digit.  The value is
\* whole + frac/den, negated when neg.
ParseFloat(tok) ==
    LET neg   == Len(tok) >= 1 /\ tok[1] = "-"
        body  == IF Len(tok) >= 1 /\ tok[1] \in {"+", "-"} THEN Drop(tok, 1) ELSE tok
        nInt  == AcceptRun(body, 0, Digits)
        hasP  == nInt < Len(body) /\ body[nInt + 1] = "."
        frac  == IF hasP THEN Drop(body, nInt + 1) ELSE <<>>
        nFrac == AcceptRun(frac, 0, Digits)
        ok    == /\ (IF hasP THEN nFrac = Len(frac) ELSE nInt = Len(body))
                 /\ nInt + nFrac >= 1
    IN  IF ok THEN [ok |-> TRUE, neg |-> neg, whole |-> DecVal(Take(body, nInt)),
                        frac |-> DecVal(frac), den |-> Pow10(nFrac)]
        ELSE [ok |-> FALSE, neg |-> FALSE, whole |-> 0, frac |-> 0, den |-> 1]

\* (s *ss) SkipSpace: the white space at the front of s is dropped
SkipSpace(s) == Drop(s, AcceptRun(s, 0, {" "}))

\* the characters of s before its first white space
RECURSIVE UpToSpace(_)
UpToSpace(s) == IF s = <<>> \/ s[1] = " " THEN <<>>
                ELSE <<s[1]>> \o UpToSpace(Drop(s, 1))

\* Sscanf with "%f%s": each verb skips leading white space; %f fails on EOF
\* or on a token ParseFloat rejects; %s fails on EOF (notEOF), otherwise
\* takes the characters up to the next white space.
Sscanf(s) ==
    LET s1   == SkipSpace(s)
        n    == floatToken(s1)
        f    == ParseFloat(Take(s1, n))
        rest == SkipSpace(Drop(s1, n))
    IN  IF s1 = <<>> \/ ~f.ok \/ rest = <<>>
        THEN [err |-> TRUE, amount |-> f, unit |-> <<>>]
        ELSE [err |-> FALSE, amount |-> f, unit |-> UpToSpace(rest)]

----------------------------------------------------------------------------
(* Outcomes of parseSize *)

Ok(n)  == [status |-> "ok", bytes |-> n]
Err    == [status |-> "err", bytes |-> 0]
Panic  == [status |-> "panic", bytes |-> 0]
NotRun == [status |-> "none", bytes |-> 0]

\* no formatSize call has been made
FormatIdle == /\ fin = 0
              /\ fstr = <<>>
              /\ rt = NotRun

\* the schema as the server holds it
DbSnapshot == [exists |-> dbExists, tables |-> tables, size |-> dbSize]

\* what getDatabaseSize returns: (reading, err)
Return(reading, err) == [reading |-> reading, err |-> err]
NoReturn == [reading |-> -1, err |-> "none"]

\* getDatabaseSize is not followed statement by statement
ProbeIdle == /\ ppc = "idle"
             /\ pstmts = <<>>
             /\ pret = NoReturn
             /\ unclosed = 0

Tasks == 1..MaxTasks

\* no insert task has been launched
TaskIdle == /\ tpc = [t \in Tasks |-> "idle"]
            /\ try = [t \in Tasks |-> 0]
            /\ tLast = [t \in Tasks |-> "none"]
            /\ tTable = [t \in Tasks |-> 0]
            /\ attempts = [t \in Tasks |-> 0]
            /\ tPrinted = [t \in Tasks |-> FALSE]
            /\ outerErr = "none"
            /\ activeWorkers = 0
            /\ maxActiveWorkers = 0
            /\ seats = 0

\* the unit switch of the worker-pool parseSize: the number of factors
\* 1024 the amount is multiplied by (0: the default branch, an error)
UnitPower_MBasKB(unit) ==
    CASE unit \in {<<"K", "B">>, <<"K">>} -> 1
      [] unit \in {<<"M", "B">>, <<"M", "i">>} -> 1
      [] unit \in {<<"G", "B">>, <<"G", "i">>} -> 3
      [] OTHER -> 0

UnitPower(unit) ==
    CASE unit \in {<<"K", "B">>, <<"K">>} -> 1
      [] unit \in {<<"M", "B">>, <<"M", "i">>} -> 2
      [] unit \in {<<"G", "B">>, <<"G", "i">>} -> 3
      [] OTHER -> 0

\* int(amount * 1024 * ... * 1024) with k factors, amount = whole + r/den,
\* 0 <= r < den.  A multiplication of a float64 by 1024 is exact, so the
\* result is the truncation of the exact product.
RECURSIVE ScaleTrunc(_, _, _, _)
ScaleTrunc(whole, r, den, k) ==
    IF k = 0 THEN whole
    ELSE ScaleTrunc(whole * OneKB + (r * OneKB) \div den, (r * OneKB) % den, den, k - 1)

\* parseSize of the worker-pool variant
parseSize(s) ==
    LET r == Sscanf(s)
        k == UnitPower(r.unit)
        a == r.amount
        v == ScaleTrunc(a.whole, a.frac, a.den, k)
    IN  IF r.err THEN Err
        ELSE IF k = 0 THEN Err
        ELSE Ok(IF a.neg THEN -v ELSE v)

\* strconv.Atoi: [sign] digits, at least one digit
Atoi(s) ==
    LET neg  == Len(s) >= 1 /\ s[1] = "-"
        body == IF Len(s) >= 1 /\ s[1] \in {"+", "-"} THEN Drop(s, 1) ELSE s
        ok   == body # <<>> /\ AcceptRun(body, 0, Digits) = Len(body)
    IN  IF ok THEN [ok |-> TRUE, val |-> IF neg THEN -DecVal(body) ELSE DecVal(body)]
        ELSE [ok |-> FALSE, val |-> 0]

\* parseSize of src/main.go and of the row-semaphore variant (same text):
\* opt.size[len(opt.size)-2:] panics when the string has fewer than 2
\* characters
parseSizeAtoi(s) ==
    IF Len(s) < 2 THEN Panic
    ELSE LET dataUnit  == Drop(s, Len(s) - 2)
             unitCount == Atoi(Take(s, Len(s) - 2))
         IN  IF ~unitCount.ok THEN Err
             ELSE CASE dataUnit = <<"K", "B">> -> Ok(unitCount.val * 1024)
                    [] dataUnit = <<"M", "B">> -> Ok(unitCount.val * 1024 * 1024)
                    [] dataUnit = <<"G", "B">> -> Ok(unitCount.val * 1024 * 1024 * 1024)
                    [] OTHER -> Err

\* unitCoefficient of the batch variant: 1 for any unit it does not know
unitCoefficient(unit) ==
    CASE unit = <<"K", "B">> -> 1
      [] unit = <<"M", "B">> -> 1024
      [] unit = <<"G", "B">> -> 1024 * 1024
      [] OTHER -> 1

\* parseSize of the batch variant; the count it returns is in KB
parseSizeBatch(s) ==
    IF Len(s) < 2 THEN Panic
    ELSE LET dataUnit  == Drop(s, Len(s) - 2)
             unitCount == Atoi(Take(s, Len(s) - 2))
         IN  IF ~unitCount.ok THEN Err
             ELSE Ok(unitCount.val * unitCoefficient(dataUnit))

Variants == {"pool", "main", "batch"}

ParseOf(v, s) == CASE v = "pool"  -> parseSize(s)
                   [] v = "main"  -> parseSizeAtoi(s)
                   [] v = "batch" -> parseSizeBatch(s)

----------------------------------------------------------------------------
(* formatSize (the same text in the worker-pool variant, the row-semaphore *)
(* variant and src/main.go)                                                *)

DigitChar(d) ==
    CASE d = 0 -> "0" [] d = 1 -> "1" [] d = 2 -> "2" [] d = 3 -> "3"
      [] d = 4 -> "4" [] d = 5 -> "5" [] d = 6 -> "6" [] d = 7 -> "7"
      [] d = 8 -> "8" [] d = 9 -> "9"

\* the decimal digits of n >= 0
RECURSIVE Itoa(_)
Itoa(n) == IF n < 10 THEN <<DigitChar(n)>>
           ELSE Append(Itoa(n \div 10), DigitChar(n % 10))

\* b * 1000 / unit for 0 <= b < unit, unit a power of 1024: the quotient q
\* and the remainder as a fraction rem/den.  For unit = OneGB the product
\* is formed in two halves so that no intermediate value exceeds 2^31.
Thousandths(b, unit) ==
    IF unit <= OneMB
    THEN [q |-> (b * 1000) \div unit, rem |-> (b * 1000) % unit, den |-> unit]
    ELSE LET h  == b \div OneMB
             t  == 1000 * (b % OneMB)
             sm == 1000 * h + (t \div OneMB)
         IN  [q |-> sm \div OneKB,
              rem |-> (sm % OneKB) * OneMB + (t % OneMB),
              den |-> OneGB]

\* "%.3f" of float64(size)/unit for size >= 0.  The division by a power of
\* two is exact, and the formatting rounds the exact value to three
\* decimals, a tie going to the even digit.  The result is the whole part
\* and the number of thousandths (1000 when the fraction rounds up to 1).
Fixed3_wholeOnly(sz, unit) == [whole |-> sz \div unit, frac |-> 0]

Fixed3(sz, unit) ==
    LET t  == Thousandths(sz % unit, unit)
        up == \/ t.rem > t.den - t.rem
              \/ (t.rem = t.den - t.rem /\ t.q % 2 = 1)
    IN  [whole |-> sz \div unit, frac |-> t.q + (IF up THEN 1 ELSE 0)]

\* the three digits after the period
Pad3(n) == <<DigitChar(n \div 100), DigitChar((n \div 10) % 10), DigitChar(n % 10)>>

\* fmt.Sprintf("%.3f " + label, float64(size)/unit)
Sprintf3(sz, unit, label) ==
    LET a == IF sz >= 0 THEN sz ELSE -sz
        f == Fixed3(a, unit)
        w == IF f.frac = 1000 THEN f.whole + 1 ELSE f.whole
        d == IF f.frac = 1000 THEN 0 ELSE f.frac
    IN  (IF sz < 0 THEN <<"-">> ELSE <<>>)
        \o Itoa(w) \o <<".">> \o Pad3(d) \o <<" ">> \o label

\* the comparison of the cases of formatSize: case size <= OneKB, ...
Within_strict(sz, threshold) == sz < threshold

Within(sz, threshold) == sz <= threshold

formatSize(sz) ==
    IF Within(sz, OneKB) THEN Sprintf3(sz, 1, <<"B">>)
    ELSE IF Within(sz, OneMB) THEN Sprintf3(sz, OneKB, <<"K", "B">>)
    ELSE IF Within(sz, OneGB) THEN Sprintf3(sz, OneMB, <<"M", "B">>)
    ELSE Sprintf3(sz, OneGB, <<"G", "B">>)

----------------------------------------------------------------------------
(* The worker-pool variant: generateData and its goroutines                *)

W == 1..(MaxConcurrency + 1)

\* generateData of the batch variant has not been entered
BatchIdle == /\ remainingSize = 0
             /\ rowNumber = 0
             /\ btask = [w \in W |-> "idle"]
             /\ batches = 0
             /\ plannedRows = 0

PoolSizes == { <<"0", "K", "B">>, <<"1", "K", "B">>, <<"1", "X", "B">>,
               <<"-", "1", "K", "B">> }

ProvisionErrors == {"open", "ping", "drop", "createdb", "createtable"}

\* the errors db.Exec may return to insertRows: "Too many connections" of
\* the server, or any other
InsertErrors == {"tmc", "other"}

\* main: panic(err) ends the process with status 2
PanicStatus == 2

\* getDatabaseSize: the reading of a probe that succeeds
getDatabaseSize == dbSize

\* getDatabaseSize: tables = append(tables, table{i}): for i := 0; i < opt.tableNumber; i++
\* in the worker-pool variant, for i := 1; i <= opt.tableNumber; i++ in the
\* row-semaphore variant
ProbeTables_fromOne(v, n) == 1..n

ProbeTables(v, n) == IF v = "pool" THEN 0..(n - 1) ELSE 1..n

\* a line printed with the arguments it hands to formatSize, in order
Output(kind, args) == [kind |-> kind, args |-> args]
NoOutput == Output("none", <<>>)

\* integer division of Go: the quotient is truncated toward zero
TruncDiv(a, b) == IF a >= 0 THEN a \div b ELSE -((-a) \div b)

InFlight == Cardinality({w \in W : wpc[w] = "exec"})
Live     == Cardinality({w \in W : wpc[w] \in {"check", "exec"}})
Started  == Cardinality({w \in W : wpc[w] # "idle"})

\* main: err := opt.generateData(); if err != nil { panic(err) }
MainExit_zero(err) == 0

MainExit(err) == IF err = "none" THEN 0 ELSE PanicStatus

\* generateData returns the error e and main panics
Fail(e) == /\ ctl' = "failed"
           /\ genErr' = e
           /\ exitStatus' = MainExit(e)

Init ==
    /\ size \in PoolSizes
    /\ overwrite \in BOOLEAN
    /\ concurrency \in 1..MaxConcurrency
    /\ tableNumber \in 1..MaxTables
    /\ dbExists \in BOOLEAN
    /\ tables = IF dbExists THEN 0..(tableNumber - 1) ELSE {}
    /\ dbSize = IF dbExists THEN PreBytes ELSE 0
    /\ events = {}
    /\ ctl = "ensureDatabase"
    /\ tableIdx = 0
    /\ launched = 0
    /\ desiredAmount = 0
    /\ initialSize = 0
    /\ finalSize = 0
    /\ bytesInserted = 0
    /\ provErr = "none"
    /\ genErr = "none"
    /\ printed = NoOutput
    /\ exitStatus = -1
    /\ cancelled = FALSE
    /\ wpc = [w \in W |-> "idle"]
    /\ wtbl = [w \in W |-> -1]
    /\ rows = 0
    /\ werr = [w \in W |-> "none"]
    /\ mpc = "idle"
    /\ ticks = 0
    /\ curSize = -1
    /\ previousSize = 0
    /\ variant = "pool"
    /\ pres = NotRun
    /\ FormatIdle
    /\ TaskIdle
    /\ emptyBytes = 0
    /\ dbAtStart = DbSnapshot
    /\ BatchIdle
    /\ refreshed = {}
    /\ ProbeIdle

\* where generateData goes when a provisioning call returns an error
OnProvisionError_ignore(next) == next

OnProvisionError(next) == "failed"

\* the step of generateData that follows ensureDatabase: getClient in the
\* worker-pool variant, the ensureTable loop in the row-semaphore variant,
\* parseSize in the batch variant
AfterEnsureDatabase == IF variant = "pool" THEN "getClient"
                       ELSE IF variant = "batch" THEN "batchParse"
                       ELSE "createTables"

\* the create-tables loop: for i := 0; i < opt.tableNumber; i++ in the
\* worker-pool variant, for i := 1; i <= opt.tableNumber; i++ in the
\* row-semaphore variant
FirstTable == IF variant = "pool" THEN 0 ELSE 1

LastTable == IF variant = "pool" THEN tableNumber - 1 ELSE tableNumber

\* ensureDatabase: if opt.overwrite { DROP DATABASE IF EXISTS ... }
Overwrites_never == FALSE

Overwrites == overwrite

\* ensureDatabase: open, ping, DROP DATABASE IF EXISTS when overwrite is
\* set, CREATE DATABASE ("database exists" is not an error).  failAt is the
\* call that returns an error, "none" when every call succeeds.
EnsureDatabase ==
    /\ ctl = "ensureDatabase"
    /\ \E failAt \in {"none", "open", "ping", "drop", "createdb"} :
         /\ failAt = "drop" => Overwrites
         /\ provErr' = failAt
         /\ LET pinged  == failAt # "open"
                dropped == Overwrites /\ failAt \notin {"open", "ping", "drop"}
                created == failAt = "none"
            IN  /\ events' = events
                               \cup (IF pinged THEN {"connect"} ELSE {})
                               \cup (IF Overwrites /\ failAt \notin {"open", "ping"}
                                     THEN {"dropdb"} ELSE {})
                               \cup (IF failAt \in {"none", "createdb"}
                                     THEN {"createdb"} ELSE {})
                /\ dbExists' = IF created THEN TRUE
                               ELSE IF dropped THEN FALSE ELSE dbExists
                /\ tables' = IF dropped THEN {} ELSE tables
                /\ dbSize' = IF dropped THEN 0 ELSE dbSize
         /\ ctl' = IF failAt = "none" THEN AfterEnsureDatabase
                   ELSE OnProvisionError(AfterEnsureDatabase)
         /\ exitStatus' = IF ctl' = "failed" THEN MainExit(provErr')
                          ELSE exitStatus
    /\ UNCHANGED <<cfgVars, envVars, batVars, refreshed, prbVars, tableIdx, launched, desiredAmount, initialSize,
                   finalSize, bytesInserted, genErr, printed, cancelled,
                   wrkVars, monVars, prsVars, othVars>>

\* db, err = opt.getClient(opt.dbName) and the pool settings
GetClient ==
    /\ ctl = "getClient"
    /\ \E ok \in BOOLEAN :
         /\ provErr' = IF ok THEN provErr ELSE "open"
         /\ ctl' = IF ok THEN "createTables" ELSE OnProvisionError("createTables")
         /\ exitStatus' = IF ctl' = "failed" THEN MainExit(provErr')
                          ELSE exitStatus
    /\ tableIdx' = FirstTable
    /\ UNCHANGED <<cfgVars, envVars, batVars, refreshed, prbVars, dbVars, events, launched, desiredAmount, initialSize,
                   finalSize, bytesInserted, genErr, printed, cancelled,
                   wrkVars, monVars, prsVars, othVars>>

\* one iteration of the create-tables loop: CREATE TABLE table{i};
\* "already exists" is not an error, any other error is returned.  A table
\* that is created has no rows.  (ensureTable in the row-semaphore variant,
\* which opens a client of its own.)
CreateTable ==
    /\ ctl = "createTables"
    /\ tableIdx <= LastTable
    /\ events' = events \cup {"connect", "createtable"}
    /\ \E ok \in BOOLEAN :
         /\ provErr' = IF ok THEN provErr ELSE "createtable"
         /\ tables' = IF ok THEN tables \cup {tableIdx} ELSE tables
         /\ dbSize' = IF ok /\ tableIdx \notin tables THEN dbSize + emptyBytes
                       ELSE dbSize
         /\ LET next == IF tableIdx = LastTable THEN "parseSize"
                        ELSE "createTables"
            IN  ctl' = IF ok THEN next ELSE OnProvisionError(next)
         /\ exitStatus' = IF ctl' = "failed" THEN MainExit(provErr')
                          ELSE exitStatus
    /\ tableIdx' = tableIdx + 1
    /\ UNCHANGED <<cfgVars, envVars, batVars, refreshed, prbVars, dbExists,
                   launched, desiredAmount, initialSize,
                   finalSize, bytesInserted, genErr, printed, cancelled,
                   wrkVars, monVars, prsVars, othVars>>

\* the step of generateData that follows a successful parseSize
AfterParse_noBaseline == "launch"

AfterParse == "baseline"

\* desiredAmount, err := opt.parseSize()
ParseSizeStep ==
    /\ ctl = "parseSize"
    /\ pres' = ParseOf(variant, size)
    /\ IF pres'.status = "ok"
       THEN /\ desiredAmount' = pres'.bytes
            /\ ctl' = AfterParse
            /\ UNCHANGED <<exitStatus, genErr>>
       ELSE /\ Fail("parse")
            /\ UNCHANGED desiredAmount
    /\ UNCHANGED <<cfgVars, envVars, batVars, refreshed, prbVars, dbVars, events, tableIdx, launched, initialSize,
                   finalSize, bytesInserted, provErr, printed, cancelled,
                   wrkVars, monVars, variant, othVars>>

\* where generateData goes when the baseline reading returns an error
OnBaselineError_ignore == "launch"

OnBaselineError == "failed"

\* initialSize, err := opt.getDatabaseSize(); if err != nil { return err }
Baseline ==
    /\ ctl = "baseline"
    /\ refreshed' = ProbeTables(variant, tableNumber)
    /\ events' = events \cup {"connect", "probe"}
    /\ \E ok \in BOOLEAN :
         IF ok THEN /\ initialSize' = getDatabaseSize
                    /\ ctl' = "launch"
                    /\ UNCHANGED <<exitStatus, genErr>>
               ELSE /\ genErr' = "baseline"
                    /\ ctl' = OnBaselineError
                    /\ exitStatus' = IF ctl' = "failed" THEN MainExit(genErr')
                                     ELSE exitStatus
                    /\ initialSize' = 0
    /\ UNCHANGED <<cfgVars, envVars, batVars, prbVars, dbVars, tableIdx, launched, desiredAmount,
                   finalSize, bytesInserted, provErr, printed, cancelled,
                   wrkVars, monVars, prsVars, othVars>>

\* the bound of the launch loop: for i := 0; i < opt.concurrency; i++
WorkersToLaunch_offByOne == concurrency + 1

WorkersToLaunch == concurrency

\* one iteration of the launch loop: wg.Add(1); go opt.insertRows(ctx)
LaunchWorker ==
    /\ variant = "pool"
    /\ ctl = "launch"
    /\ launched < WorkersToLaunch
    /\ launched' = launched + 1
    /\ wpc' = [wpc EXCEPT ![launched + 1] = "check"]
    /\ UNCHANGED <<cfgVars, envVars, batVars, refreshed, prbVars, dbVars, events, ctl, tableIdx, desiredAmount,
                   initialSize, finalSize, bytesInserted, provErr, genErr,
                   printed, exitStatus, cancelled, wtbl, rows, werr, monVars,
                   prsVars, othVars>>

\* wg.Add(1); go monitorProgress(initialSize, desiredAmount); wg.Wait().
\* monitorProgress first prints the current size and the desired amount.
LaunchMonitor ==
    /\ variant = "pool"
    /\ ctl = "launch"
    /\ launched >= WorkersToLaunch
    /\ mpc' = "tick"
    /\ printed' = Output("start", <<initialSize, desiredAmount>>)
    /\ previousSize' = initialSize
    /\ ctl' = "wait"
    /\ UNCHANGED <<cfgVars, envVars, batVars, refreshed, prbVars, dbVars, events, tableIdx, launched, desiredAmount,
                   initialSize, finalSize, bytesInserted, provErr, genErr,
                   exitStatus, cancelled, wrkVars, ticks, curSize, prsVars,
                   othVars>>

\* case <-ctx.Done() of the select in insertRows is ready
CtxDone_never == FALSE

CtxDone == cancelled

\* insertRows: select { case <-ctx.Done(): return nil; default: ... }
\* with the table picked as rand.Int() % opt.tableNumber.  "exec" is the
\* default branch, from the select to the return of db.Exec.
WorkerCheck(w) ==
    /\ wpc[w] = "check"
    /\ IF CtxDone
       THEN /\ wpc' = [wpc EXCEPT ![w] = "done"]
            /\ UNCHANGED <<wtbl, events>>
       ELSE /\ \E t \in 0..(tableNumber - 1) : wtbl' = [wtbl EXCEPT ![w] = t]
            /\ wpc' = [wpc EXCEPT ![w] = "exec"]
            /\ events' = events \cup {"connect", "insert"}
    /\ werr' = [werr EXCEPT ![w] = "none"]
    /\ UNCHANGED <<cfgVars, envVars, batVars, refreshed, prbVars, dbVars, ctlVars, printed, cancelled, rows, monVars,
                   prsVars, othVars>>

\* db.Exec(INSERT ...) returns without error: the schema has grown
InsertDone(w) ==
    /\ wpc[w] = "exec"
    /\ rows < MaxRows
    /\ rows' = rows + 1
    /\ dbSize' = dbSize + RowBytes
    /\ wpc' = [wpc EXCEPT ![w] = "check"]
    /\ wtbl' = [wtbl EXCEPT ![w] = -1]
    /\ UNCHANGED <<cfgVars, envVars, batVars, refreshed, prbVars, dbExists, tables, events, ctlVars, printed,
                   cancelled, werr, monVars, prsVars, othVars>>

\* where insertRows goes after it has printed the error of db.Exec: the
\* next iteration of its loop
AfterInsertError_returns == "done"

AfterInsertError == "check"

\* db.Exec(INSERT ...) returns the error e: "Failed to insert row into
\* table" is printed with e and the loop goes on to its next select
InsertFail(w) ==
    /\ wpc[w] = "exec"
    /\ \E e \in InsertErrors : werr' = [werr EXCEPT ![w] = e]
    /\ wpc' = [wpc EXCEPT ![w] = AfterInsertError]
    /\ wtbl' = [wtbl EXCEPT ![w] = -1]
    /\ UNCHANGED <<cfgVars, envVars, batVars, refreshed, prbVars, dbVars, events, ctlVars, printed, cancelled,
                   rows, monVars, prsVars, othVars>>

\* progress := float64(dataInserted) * 100 / float64(desiredAmount);
\* progress >= 100.  With desiredAmount = 0 the quotient is +Inf for
\* dataInserted > 0 and NaN (never >= 100) for dataInserted = 0; with
\* desiredAmount < 0 the division reverses the order.
ProgressReached(dataInserted, desired) ==
    IF desired > 0 THEN dataInserted * 100 >= 100 * desired
    ELSE IF desired = 0 THEN dataInserted > 0
    ELSE dataInserted * 100 <= 100 * desired

\* the test that ends monitorProgress, on a reading cur
MonitorStops_absolute(cur, initial, desired) == ProgressReached(cur, desired)

MonitorStops(cur, initial, desired) == ProgressReached(cur - initial, desired)

\* the figure printed as inserted data: curSize - initialSize
BytesInserted_swapped(cur, initial) == initial - cur

BytesInserted(cur, initial) == cur - initial

\* where monitorProgress goes when a probe on a tick returns an error:
\* "continue", the next tick
MonitorAfterProbeError_returns == "done"

MonitorAfterProbeError == "tick"

\* if curSize > previousSize { fmt.Printf("Progress: ...") }
SizeIncreased_orSame(cur, prev) == cur >= prev

SizeIncreased(cur, prev) == cur > prev

\* monitorProgress: the probe of a tick and what follows it.  A failed
\* probe is printed and the loop goes on.  A reading above previousSize
\* prints the progress line.  When the loop returns, the deferred cancel()
\* runs and then the deferred wg.Done().
MonitorProbe(ok) ==
    /\ refreshed' = ProbeTables(variant, tableNumber)
    /\ events' = events \cup {"connect", "probe"}
    /\ IF ok
       THEN /\ curSize' = getDatabaseSize
            /\ printed' = IF SizeIncreased(curSize', previousSize)
                          THEN Output("progress",
                                      <<BytesInserted(curSize', initialSize),
                                        curSize'>>)
                          ELSE Output("quiet", <<>>)
            /\ previousSize' = IF SizeIncreased(curSize', previousSize)
                               THEN curSize'
                               ELSE previousSize
            /\ IF MonitorStops(curSize', initialSize, desiredAmount)
               THEN mpc' = "done" /\ cancelled' = TRUE
               ELSE UNCHANGED <<mpc, cancelled>>
       ELSE /\ printed' = Output("probeErr", <<>>)
            /\ mpc' = MonitorAfterProbeError
            /\ cancelled' = (cancelled \/ mpc' = "done")
            /\ UNCHANGED <<curSize, previousSize>>
    /\ UNCHANGED <<cfgVars, envVars, batVars, prbVars, dbVars, ctlVars, wrkVars,
                   prsVars, othVars>>

\* monitorProgress: one tick of the 1 s ticker, counted in ticks
MonitorTick ==
    /\ variant = "pool"
    /\ mpc = "tick"
    /\ ticks < MaxTicks
    /\ ticks' = ticks + 1
    /\ \E ok \in BOOLEAN : MonitorProbe(ok)

\* wg.Wait(): the counter was raised once per worker and once for the monitor
WaitGroupDone_monitorOnly == mpc = "done"

WaitGroupDone == /\ \A w \in W : wpc[w] \in {"idle", "done"}
                 /\ mpc = "done"

WaitReturns ==
    /\ ctl = "wait"
    /\ WaitGroupDone
    /\ ctl' = "final"
    /\ UNCHANGED <<cfgVars, envVars, batVars, refreshed, prbVars, dbVars, events, tableIdx, launched, desiredAmount,
                   initialSize, finalSize, bytesInserted, provErr, genErr,
                   printed, exitStatus, cancelled, wrkVars, monVars, prsVars,
                   othVars>>

\* curSize, err := opt.getDatabaseSize() after wg.Wait()
FinalProbe ==
    /\ ctl = "final"
    /\ refreshed' = ProbeTables(variant, tableNumber)
    /\ events' = events \cup {"connect", "probe"}
    /\ \E ok \in BOOLEAN :
         IF ok THEN /\ finalSize' = getDatabaseSize
                    /\ ctl' = "summary"
                    /\ UNCHANGED <<exitStatus, genErr>>
               ELSE /\ Fail("final")
                    /\ UNCHANGED finalSize
    /\ UNCHANGED <<cfgVars, envVars, batVars, prbVars, dbVars, tableIdx, launched, desiredAmount,
                   initialSize, bytesInserted, provErr, printed, cancelled,
                   wrkVars, monVars, prsVars, othVars>>

\* the largest number of backoffs a task has completed
MaxSlept == IF \A t \in Tasks : try[t] = 0 THEN 0
            ELSE CHOOSE n \in 1..MaxTries :
                    /\ \E t \in Tasks : try[t] = n
                    /\ \A t \in Tasks : try[t] <= n

\* int(totalTime.Seconds()): the whole seconds from startingTime to the
\* end of the wait.  The worker-pool variant has received ticks of 1 s;
\* the row-semaphore variant ticks of 5 s, and its tasks have slept 5 s
\* per backoff.
ElapsedSeconds ==
    IF variant = "pool" THEN ticks..(MaxTicks + 1)
    ELSE LET least == IF ticks >= MaxSlept THEN TickSeconds * ticks
                      ELSE TickSeconds * MaxSlept
         IN  least..(least + 1)

\* the summary.  "Total data inserted" is printed first; the speed divides
\* by seconds = int(totalTime.Seconds()), which may be 0 (integer division
\* by zero panics).
Summary ==
    /\ ctl = "summary"
    /\ bytesInserted' = BytesInserted(finalSize, initialSize)
    /\ \E seconds \in ElapsedSeconds :
         IF seconds = 0
         THEN /\ printed' = Output("summary", <<bytesInserted'>>)
              /\ Fail("divzero")
         ELSE /\ printed' = Output("summary",
                                   <<bytesInserted',
                                     TruncDiv(bytesInserted', seconds)>>)
              /\ ctl' = "showdb"
              /\ UNCHANGED <<exitStatus, genErr>>
    /\ UNCHANGED <<cfgVars, envVars, batVars, refreshed, prbVars, dbVars, events,
                   tableIdx, launched, desiredAmount, initialSize, finalSize,
                   provErr, cancelled, wrkVars, monVars, prsVars, othVars>>

\* what showDBSizes returns: nil after the loop over the schemas, the
\* error of db.Query, or the error of rows.Scan or strconv.Atoi on a row
ShowOutcomes == {"ok", "query", "row"}

\* return opt.showDBSizes(), and main: a nil error ends the process with
\* status 0, any other error with panic(err)
ShowDBSizes ==
    /\ ctl = "showdb"
    /\ \E o \in ShowOutcomes :
         IF o = "ok"
         THEN /\ printed' = Output("sizes", <<>>)
              /\ ctl' = "done"
              /\ exitStatus' = MainExit("none")
              /\ UNCHANGED genErr
         ELSE /\ printed' = IF o = "row" THEN Output("sizesCut", <<>>)
                            ELSE printed
              /\ Fail("showdb")
    /\ UNCHANGED <<cfgVars, envVars, batVars, refreshed, prbVars, dbVars, events,
                   tableIdx, launched, desiredAmount, initialSize, finalSize,
                   bytesInserted, provErr, cancelled, wrkVars, monVars,
                   prsVars, othVars>>

Next ==
    \/ EnsureDatabase
    \/ GetClient
    \/ CreateTable
    \/ ParseSizeStep
    \/ Baseline
    \/ LaunchWorker
    \/ LaunchMonitor
    \/ \E w \in W : WorkerCheck(w)
    \/ \E w \in W : InsertDone(w)
    \/ \E w \in W : InsertFail(w)
    \/ MonitorTick
    \/ WaitReturns
    \/ FinalProbe
    \/ Summary
    \/ ShowDBSizes

Spec == Init /\ [][Next]_vars

----------------------------------------------------------------------------
(* parseSize of each variant applied to a size string, and formatSize and  *)
(* parseSize of the worker-pool variant applied to the result              *)

\* generateData has not been entered
RunIdle ==
    /\ events = {}
    /\ tableIdx = 0
    /\ launched = 0
    /\ desiredAmount = 0
    /\ initialSize = 0
    /\ finalSize = 0
    /\ bytesInserted = 0
    /\ provErr = "none"
    /\ genErr = "none"
    /\ printed = NoOutput
    /\ exitStatus = -1
    /\ cancelled = FALSE
    /\ wpc = [w \in W |-> "idle"]
    /\ wtbl = [w \in W |-> -1]
    /\ rows = 0
    /\ werr = [w \in W |-> "none"]
    /\ mpc = "idle"
    /\ ticks = 0
    /\ curSize = -1
    /\ previousSize = 0
    /\ refreshed = {}

InitParse ==
    /\ size \in SizeStrings
    /\ variant \in Variants
    /\ pres = NotRun
    /\ overwrite = FALSE
    /\ concurrency = 1
    /\ tableNumber = 1
    /\ dbExists = FALSE
    /\ tables = {}
    /\ dbSize = 0
    /\ ctl = "parseOnly"
    /\ RunIdle
    /\ emptyBytes = 0
    /\ dbAtStart = DbSnapshot
    /\ BatchIdle
    /\ ProbeIdle
    /\ FormatIdle
    /\ TaskIdle

ParseRun ==
    /\ ctl = "parseOnly"
    /\ pres.status = "none"
    /\ pres' = ParseOf(variant, size)
    /\ UNCHANGED <<cfgVars, envVars, batVars, refreshed, prbVars, dbVars, events, ctlVars, printed, cancelled,
                   wrkVars, monVars, variant, othVars>>

\* formatSize applied to the byte count parseSize returned
FormatParsed ==
    /\ ctl = "parseOnly"
    /\ variant = "pool"
    /\ pres.status = "ok"
    /\ fstr = <<>>
    /\ fin' = pres.bytes
    /\ fstr' = formatSize(pres.bytes)
    /\ UNCHANGED <<cfgVars, envVars, batVars, refreshed, prbVars, dbVars, events, ctlVars, printed, cancelled,
                   wrkVars, monVars, prsVars, rt, tskVars>>

\* parseSize applied to the string formatSize returned
Reparse ==
    /\ ctl = "parseOnly"
    /\ fstr # <<>>
    /\ rt.status = "none"
    /\ rt' = parseSize(fstr)
    /\ UNCHANGED <<cfgVars, envVars, batVars, refreshed, prbVars, dbVars, events, ctlVars, printed, cancelled,
                   wrkVars, monVars, prsVars, fin, fstr, tskVars>>

NextParse ==
    \/ ParseRun
    \/ FormatParsed
    \/ Reparse

SpecParse == InitParse /\ [][NextParse]_vars

----------------------------------------------------------------------------
(* formatSize applied to a byte count                                      *)

\* byte counts at, below and above the thresholds of formatSize, and one
\* sixteenth above them (1088 / 1024 = 1.0625, a tie of the rounding)
FormatInputs ==
    {u + j * (u \div 16) + d :
        u \in {0, OneKB, OneMB, OneGB}, j \in {0, 1},
        d \in (-FormatSpread)..FormatSpread}

InitFormat ==
    /\ size = <<>>
    /\ variant = "pool"
    /\ pres = NotRun
    /\ overwrite = FALSE
    /\ concurrency = 1
    /\ tableNumber = 1
    /\ dbExists = FALSE
    /\ tables = {}
    /\ dbSize = 0
    /\ ctl = "formatOnly"
    /\ RunIdle
    /\ emptyBytes = 0
    /\ dbAtStart = DbSnapshot
    /\ BatchIdle
    /\ ProbeIdle
    /\ fin \in FormatInputs
    /\ fstr = <<>>
    /\ rt = NotRun
    /\ TaskIdle

FormatRun ==
    /\ ctl = "formatOnly"
    /\ fstr = <<>>
    /\ fstr' = formatSize(fin)
    /\ UNCHANGED <<cfgVars, envVars, batVars, refreshed, prbVars, dbVars, events, ctlVars, printed, cancelled,
                   wrkVars, monVars, prsVars, fin, rt, tskVars>>

NextFormat == FormatRun

SpecFormat == InitFormat /\ [][NextFormat]_vars

----------------------------------------------------------------------------
(* One insert task of the row-semaphore variant: the goroutine that        *)
(* generateData starts for each row, after it has put an element into      *)
(* workerLimiter                                                           *)

\* what one call of insertRow returns: nil, an error that contains
\* "Too many connections", or another error
InsertOutcomes == {"ok", "tmc", "other"}

\* the schema is provisioned, the baseline was read without error (so err
\* of generateData is nil) and the launch loop has started one task
InitTask ==
    /\ size = <<"1", "M", "B">>
    /\ variant = "main"
    /\ pres = NotRun
    /\ overwrite \in BOOLEAN
    /\ concurrency \in 1..MaxConcurrency
    /\ tableNumber \in 1..MaxTables
    /\ dbExists = TRUE
    /\ tables = 1..tableNumber
    /\ dbSize \in {0, PreBytes}
    /\ ctl = "taskOnly"
    /\ RunIdle
    /\ emptyBytes = 0
    /\ dbAtStart = DbSnapshot
    /\ BatchIdle
    /\ ProbeIdle
    /\ FormatIdle
    /\ \E t0 \in Tasks : tpc = [t \in Tasks |-> IF t = t0 THEN "enter" ELSE "idle"]
    /\ try = [t \in Tasks |-> 0]
    /\ tLast = [t \in Tasks |-> "none"]
    /\ tTable = [t \in Tasks |-> 0]
    /\ attempts = [t \in Tasks |-> 0]
    /\ tPrinted = [t \in Tasks |-> FALSE]
    /\ outerErr = "none"
    /\ activeWorkers = 0
    /\ maxActiveWorkers = 0
    /\ seats = 1

\* mu.Lock(); activeWorkers++; maxActiveWorkers; mu.Unlock();
\* tableName := table{rand.Int() % opt.tableNumber + 1}; try := 0
TaskEnter(t) ==
    /\ tpc[t] = "enter"
    /\ activeWorkers' = activeWorkers + 1
    /\ maxActiveWorkers' = IF activeWorkers' > maxActiveWorkers
                           THEN activeWorkers' ELSE maxActiveWorkers
    /\ \E n \in 1..tableNumber : tTable' = [tTable EXCEPT ![t] = n]
    /\ try' = [try EXCEPT ![t] = 0]
    /\ tpc' = [tpc EXCEPT ![t] = "attempt"]
    /\ UNCHANGED <<cfgVars, envVars, batVars, refreshed, prbVars, dbVars, events, ctlVars, printed, cancelled,
                   wrkVars, monVars, prsVars, fmtVars, tLast, attempts,
                   tPrinted, outerErr, seats>>

\* err != nil && strings.Contains(err.Error(), "Too many connections")
RetryOn_anyError(o) == o # "ok"

RetryOn(o) == o = "tmc"

\* err := opt.insertRow(tableName): the err declared here is local to the
\* body of the loop.  On "Too many connections" the task sleeps, otherwise
\* it breaks out of the loop.
TaskAttempt(t) ==
    /\ tpc[t] = "attempt"
    /\ \E o \in InsertOutcomes :
         /\ tLast' = [tLast EXCEPT ![t] = o]
         /\ IF o = "ok"
            THEN /\ rows' = rows + 1
                 /\ dbSize' = dbSize + RowBytes
            ELSE UNCHANGED <<rows, dbSize>>
         /\ tpc' = [tpc EXCEPT ![t] = IF RetryOn(o) THEN "sleep" ELSE "leave"]
    /\ attempts' = [attempts EXCEPT ![t] = attempts[t] + 1]
    /\ events' = events \cup {"connect", "insert"}
    /\ UNCHANGED <<cfgVars, envVars, batVars, refreshed, prbVars, dbExists, tables, ctlVars, printed, cancelled,
                   wpc, wtbl, werr, monVars, prsVars, fmtVars, try, tTable,
                   tPrinted, outerErr, activeWorkers, maxActiveWorkers, seats>>

\* time.Sleep(5 * time.Second) returns; continue: try++ and the loop
\* condition try < 100
TaskWake(t) ==
    /\ tpc[t] = "sleep"
    /\ try' = [try EXCEPT ![t] = try[t] + 1]
    /\ tpc' = [tpc EXCEPT ![t] = IF try'[t] < MaxTries THEN "attempt" ELSE "leave"]
    /\ UNCHANGED <<cfgVars, envVars, batVars, refreshed, prbVars, dbVars, events, ctlVars, printed, cancelled,
                   wrkVars, monVars, prsVars, fmtVars, tLast, tTable,
                   attempts, tPrinted, outerErr, activeWorkers,
                   maxActiveWorkers, seats>>

\* mu.Lock(); activeWorkers--; mu.Unlock()
TaskLeave(t) ==
    /\ tpc[t] = "leave"
    /\ activeWorkers' = activeWorkers - 1
    /\ tpc' = [tpc EXCEPT ![t] = "release"]
    /\ UNCHANGED <<cfgVars, envVars, batVars, refreshed, prbVars, dbVars, events, ctlVars, printed, cancelled,
                   wrkVars, monVars, prsVars, fmtVars, try, tLast, tTable,
                   attempts, tPrinted, outerErr, maxActiveWorkers, seats>>

\* <-workerLimiter
TaskRelease(t) ==
    /\ tpc[t] = "release"
    /\ seats > 0
    /\ seats' = seats - 1
    /\ tpc' = [tpc EXCEPT ![t] = "report"]
    /\ UNCHANGED <<cfgVars, envVars, batVars, refreshed, prbVars, dbVars, events, ctlVars, printed, cancelled,
                   wrkVars, monVars, prsVars, fmtVars, try, tLast, tTable,
                   attempts, tPrinted, outerErr, activeWorkers,
                   maxActiveWorkers>>

\* if err != nil { fmt.Printf("Failed to insert a row in table ...") }
\* where err is the variable of generateData; then the deferred wg.Done()
TaskReport(t) ==
    /\ tpc[t] = "report"
    /\ tPrinted' = [tPrinted EXCEPT ![t] = (outerErr # "none")]
    /\ tpc' = [tpc EXCEPT ![t] = "done"]
    /\ UNCHANGED <<cfgVars, envVars, batVars, refreshed, prbVars, dbVars, events, ctlVars, printed, cancelled,
                   wrkVars, monVars, prsVars, fmtVars, try, tLast, tTable,
                   attempts, outerErr, activeWorkers, maxActiveWorkers, seats>>

NextTask ==
    \/ \E t \in Tasks : TaskEnter(t)
    \/ \E t \in Tasks : TaskAttempt(t)
    \/ \E t \in Tasks : TaskWake(t)
    \/ \E t \in Tasks : TaskLeave(t)
    \/ \E t \in Tasks : TaskRelease(t)
    \/ \E t \in Tasks : TaskReport(t)

SpecTask == InitTask /\ [][NextTask]_vars

----------------------------------------------------------------------------
(* getDatabaseSize, statement by statement: one call after another on a    *)
(* provisioned schema, while rows are being inserted.  variant = "pool" is *)
(* the worker-pool variant, variant = "main" the row-semaphore variant.    *)

ProbeVariants == {"pool", "main"}

\* a statement given to db.Query and whether it returned without error
Stmt(kind, ok) == [stmt |-> kind, ok |-> ok]

\* where getDatabaseSize goes when CHECK TABLE or ANALYZE TABLE returns an
\* error: return 0, err
OnRefreshError_goesOn(next) == next

OnRefreshError(next) == "returned"

\* maxConnection := int(math.Max(140, float64(opt.concurrency+10)));
\* db.SetMaxOpenConns(maxConnection)
MaxOpenConns == IF concurrency + 10 > 140 THEN concurrency + 10 ELSE 140

\* db.Query and db.Exec get a connection.  The client of the worker-pool
\* variant is shared by all goroutines and opens at most MaxOpenConns
\* connections, of which every result set that is not closed holds one; a
\* call that finds none free waits.  (The row-semaphore variant opens a
\* client per call.)
ConnAvailable == variant = "pool" => unclosed < MaxOpenConns

\* _, err := db.Query(...): the result set is dropped without Close, so
\* its connection does not go back to the pool
Dropped(ok) == IF variant = "pool" /\ ok THEN unclosed + 1 ELSE unclosed

InitProbe ==
    /\ size = <<"1", "K", "B">>
    /\ variant \in ProbeVariants
    /\ pres = NotRun
    /\ overwrite = FALSE
    /\ concurrency = 1
    /\ tableNumber \in 1..MaxTables
    /\ dbExists = TRUE
    /\ tables = IF variant = "pool" THEN 0..(tableNumber - 1)
                ELSE 1..tableNumber
    /\ dbSize \in {0, PreBytes}
    /\ emptyBytes = 0
    /\ dbAtStart = DbSnapshot
    /\ BatchIdle
    /\ ctl = "probeOnly"
    /\ RunIdle
    /\ FormatIdle
    /\ TaskIdle
    /\ ppc = "call"
    /\ pstmts = <<>>
    /\ pret = NoReturn
    /\ unclosed = 0

\* getDatabaseSize is entered.  The row-semaphore variant opens a client
\* of its own (closed when the call returns); the worker-pool variant uses
\* the client of generateData.
ProbeCall ==
    /\ ctl = "probeOnly"
    /\ ppc \in {"call", "returned"}
    /\ pstmts' = <<>>
    /\ \E ok \in BOOLEAN :
         /\ ~ok => variant = "main"
         /\ ppc' = IF ok THEN "check" ELSE "returned"
         /\ pret' = IF ok THEN NoReturn ELSE Return(0, "open")
    /\ events' = IF variant = "main" THEN events \cup {"connect"} ELSE events
    /\ UNCHANGED <<cfgVars, envVars, batVars, unclosed, refreshed, dbVars, ctlVars, printed,
                   cancelled, wrkVars, monVars, prsVars, othVars>>

\* _, err := db.Query("CHECK TABLE " + tables)
ProbeCheck ==
    /\ ctl = "probeOnly"
    /\ ppc = "check"
    /\ ConnAvailable
    /\ refreshed' = ProbeTables(variant, tableNumber)
    /\ \E ok \in BOOLEAN :
         /\ pstmts' = Append(pstmts, Stmt("check", ok))
         /\ unclosed' = Dropped(ok)
         /\ ppc' = IF ok THEN "analyze" ELSE OnRefreshError("analyze")
         /\ pret' = IF ppc' = "returned" THEN Return(0, "check") ELSE pret
    /\ events' = events \cup {"probe"}
    /\ UNCHANGED <<cfgVars, envVars, batVars, dbVars, ctlVars, printed, cancelled,
                   wrkVars, monVars, prsVars, othVars>>

\* _, err = db.Query("ANALYZE TABLE " + tables)
ProbeAnalyze ==
    /\ ctl = "probeOnly"
    /\ ppc = "analyze"
    /\ ConnAvailable
    /\ \E ok \in BOOLEAN :
         /\ pstmts' = Append(pstmts, Stmt("analyze", ok))
         /\ unclosed' = Dropped(ok)
         /\ ppc' = IF ok THEN "select" ELSE OnRefreshError("select")
         /\ pret' = IF ppc' = "returned" THEN Return(0, "analyze") ELSE pret
    /\ UNCHANGED <<cfgVars, envVars, batVars, refreshed, dbVars, events, ctlVars,
                   printed, cancelled, wrkVars, monVars, prsVars, othVars>>

\* what the SELECT on information_schema.TABLES gives: one row with the
\* sum over the tables of the schema, or an error of db.Query.  The sum of
\* a schema without tables is NULL, which the loop over the rows skips to
\* return 0, nil.
SelectOutcomes == {"row", "fail"}

\* rows, err := db.Query(SELECT ... table_schema = dbName), defer
\* rows.Close() and the loop
ProbeSelect ==
    /\ ctl = "probeOnly"
    /\ ppc = "select"
    /\ ConnAvailable
    /\ \E o \in SelectOutcomes :
         /\ pstmts' = Append(pstmts, Stmt("select", o # "fail"))
         /\ pret' = IF o = "row" THEN Return(getDatabaseSize, "none")
                    ELSE Return(0, "select")
    /\ ppc' = "returned"
    /\ UNCHANGED <<cfgVars, envVars, batVars, unclosed, refreshed, dbVars, events, ctlVars,
                   printed, cancelled, wrkVars, monVars, prsVars, othVars>>

\* an INSERT of another goroutine (db.Exec, which gives its connection
\* back) succeeds while the call is under way
ProbeInsert ==
    /\ ctl = "probeOnly"
    /\ ConnAvailable
    /\ rows < MaxRows
    /\ rows' = rows + 1
    /\ dbSize' = dbSize + RowBytes
    /\ UNCHANGED <<cfgVars, envVars, batVars, refreshed, prbVars, dbExists, tables,
                   events, ctlVars, printed, cancelled, wpc, wtbl, werr,
                   monVars, prsVars, othVars>>

NextProbe ==
    \/ ProbeCall
    \/ ProbeCheck
    \/ ProbeAnalyze
    \/ ProbeSelect
    \/ ProbeInsert

SpecProbe == InitProbe /\ [][NextProbe]_vars

----------------------------------------------------------------------------
(* Provisioning and the baseline reading of the worker-pool variant, on a  *)
(* server that holds any part of the schema, with or without rows, and      *)
(* whose storage engine may give a table without rows a footprint           *)

InitProvision ==
    /\ size \in PoolSizes
    /\ overwrite \in BOOLEAN
    /\ concurrency = 1
    /\ tableNumber \in 1..MaxTables
    /\ emptyBytes \in {0, EmptyTableBytes}
    /\ dbExists \in BOOLEAN
    /\ tables \in IF dbExists THEN SUBSET (0..(tableNumber - 1)) ELSE {{}}
    /\ \E rowBytes \in {0, PreBytes} :
         /\ rowBytes > 0 => tables # {}
         /\ dbSize = Cardinality(tables) * emptyBytes + rowBytes
    /\ dbAtStart = DbSnapshot
    /\ BatchIdle
    /\ ctl = "ensureDatabase"
    /\ RunIdle
    /\ variant = "pool"
    /\ pres = NotRun
    /\ FormatIdle
    /\ TaskIdle
    /\ ProbeIdle

\* generateData up to the baseline reading
NextProvision ==
    \/ EnsureDatabase
    \/ GetClient
    \/ CreateTable
    \/ ParseSizeStep
    \/ Baseline

SpecProvision == InitProvision /\ [][NextProvision]_vars

----------------------------------------------------------------------------
(* One run of the row-semaphore variant: generateData, the showProgress    *)
(* goroutine and the insert tasks                                           *)

\* sizes that plan no row (less than 1 MB per table) and one or two rows
SemSizes == { <<"1", "K", "B">>, <<"2", "M", "B">> }

\* totalRows := desiredAmount / (opt.tableNumber * 1024 * 1024)
TotalRows == TruncDiv(desiredAmount, tableNumber * OneMB)

InitSem ==
    /\ size \in SemSizes
    /\ variant = "main"
    /\ pres = NotRun
    /\ overwrite \in BOOLEAN
    /\ concurrency \in 1..MaxConcurrency
    /\ tableNumber \in 1..MaxTables
    /\ dbExists \in BOOLEAN
    /\ tables = IF dbExists THEN 1..tableNumber ELSE {}
    /\ dbSize = IF dbExists THEN PreBytes ELSE 0
    /\ emptyBytes = 0
    /\ dbAtStart = DbSnapshot
    /\ BatchIdle
    /\ ctl = "ensureDatabase"
    /\ events = {}
    /\ tableIdx = FirstTable
    /\ launched = 0
    /\ desiredAmount = 0
    /\ initialSize = 0
    /\ finalSize = 0
    /\ bytesInserted = 0
    /\ provErr = "none"
    /\ genErr = "none"
    /\ printed = NoOutput
    /\ exitStatus = -1
    /\ cancelled = FALSE
    /\ wpc = [w \in W |-> "idle"]
    /\ wtbl = [w \in W |-> -1]
    /\ rows = 0
    /\ werr = [w \in W |-> "none"]
    /\ mpc = "idle"
    /\ ticks = 0
    /\ curSize = -1
    /\ previousSize = 0
    /\ refreshed = {}
    /\ FormatIdle
    /\ TaskIdle
    /\ ProbeIdle

\* done := make(chan bool); go func() { opt.showProgress(...) }()
GoShowProgress ==
    /\ variant = "main"
    /\ ctl = "launch"
    /\ mpc = "idle"
    /\ mpc' = "tick"
    /\ previousSize' = initialSize
    /\ UNCHANGED <<cfgVars, envVars, batVars, refreshed, prbVars, dbVars, events,
                   ctlVars, printed, cancelled, wrkVars, ticks, curSize,
                   prsVars, othVars>>

\* workerLimiter := make(chan struct{}, opt.concurrency): a send returns
\* while fewer than opt.concurrency elements are in the channel
SeatFree_always == TRUE

SeatFree == seats < concurrency

\* one iteration of the launch loop: workerLimiter <- struct{}{} (blocks
\* while opt.concurrency elements are in the channel); wg.Add(1); go func()
LaunchTask ==
    /\ variant = "main"
    /\ ctl = "launch"
    /\ mpc # "idle"
    /\ launched < TotalRows
    /\ SeatFree
    /\ seats' = seats + 1
    /\ launched' = launched + 1
    /\ tpc' = [tpc EXCEPT ![launched + 1] = "enter"]
    /\ UNCHANGED <<cfgVars, envVars, batVars, refreshed, prbVars, dbVars, events, ctl,
                   tableIdx, desiredAmount, initialSize, finalSize,
                   bytesInserted, provErr, genErr, exitStatus, printed,
                   cancelled, wrkVars, monVars, prsVars, fmtVars, try, tLast,
                   tTable, attempts, tPrinted, outerErr, activeWorkers,
                   maxActiveWorkers>>

\* the loop has ended and wg.Wait() returns: every task has called wg.Done
TasksJoined ==
    /\ variant = "main"
    /\ ctl = "launch"
    /\ mpc # "idle"
    /\ launched >= TotalRows
    /\ \A t \in Tasks : tpc[t] \in {"idle", "done"}
    /\ ctl' = "signal"
    /\ UNCHANGED <<cfgVars, envVars, batVars, refreshed, prbVars, dbVars, events,
                   tableIdx, launched, desiredAmount, initialSize, finalSize,
                   bytesInserted, provErr, genErr, exitStatus, printed,
                   cancelled, wrkVars, monVars, prsVars, othVars>>

\* where showProgress goes when the probe of a tick returns an error:
\* return err (the goroutine prints it and ends)
ShowProgressAfterProbeError == "done"

\* showProgress: the body of case <-ticker.C.  A failed probe ends
\* showProgress; a reading above previousSize prints the progress line.
ShowProgressProbe ==
    /\ refreshed' = ProbeTables(variant, tableNumber)
    /\ events' = events \cup {"connect", "probe"}
    /\ \E ok \in BOOLEAN :
         IF ok
         THEN /\ curSize' = getDatabaseSize
              /\ printed' = IF SizeIncreased(curSize', previousSize)
                            THEN Output("progress",
                                        <<BytesInserted(curSize', initialSize),
                                          curSize'>>)
                            ELSE Output("quiet", <<>>)
              /\ previousSize' = IF SizeIncreased(curSize', previousSize)
                                 THEN curSize' ELSE previousSize
              /\ UNCHANGED mpc
         ELSE /\ printed' = Output("probeErr", <<>>)
              /\ mpc' = ShowProgressAfterProbeError
              /\ UNCHANGED <<curSize, previousSize>>
    /\ UNCHANGED <<cfgVars, envVars, batVars, prbVars, dbVars, ctlVars, cancelled,
                   wrkVars, prsVars, othVars>>

\* showProgress: case <-ticker.C of the 5 s ticker, counted in ticks
ShowProgressTick ==
    /\ variant = "main"
    /\ mpc = "tick"
    /\ ticks < MaxTicks
    /\ ticks' = ticks + 1
    /\ ShowProgressProbe

\* done <- true: the channel has no buffer, so the send returns when
\* showProgress takes case <-done of its select, and showProgress returns
SignalDone ==
    /\ variant = "main"
    /\ ctl = "signal"
    /\ mpc = "tick"
    /\ mpc' = "done"
    /\ ctl' = "final"
    /\ UNCHANGED <<cfgVars, envVars, batVars, refreshed, prbVars, dbVars, events,
                   tableIdx, launched, desiredAmount, initialSize, finalSize,
                   bytesInserted, provErr, genErr, exitStatus, printed,
                   cancelled, wrkVars, ticks, curSize, previousSize, prsVars,
                   othVars>>

\* an attempt of a task, on a server that answers one task with "Too many
\* connections" at most MaxBusy times
BoundedAttempt(t) ==
    /\ TaskAttempt(t)
    /\ tLast'[t] = "tmc" => try[t] < MaxBusy

NextSem ==
    \/ EnsureDatabase
    \/ CreateTable
    \/ ParseSizeStep
    \/ Baseline
    \/ GoShowProgress
    \/ LaunchTask
    \/ \E t \in Tasks : TaskEnter(t)
    \/ \E t \in Tasks : BoundedAttempt(t)
    \/ \E t \in Tasks : TaskWake(t)
    \/ \E t \in Tasks : TaskLeave(t)
    \/ \E t \in Tasks : TaskRelease(t)
    \/ \E t \in Tasks : TaskReport(t)
    \/ ShowProgressTick
    \/ TasksJoined
    \/ SignalDone
    \/ FinalProbe
    \/ Summary
    \/ ShowDBSizes

SpecSem == InitSem /\ [][NextSem]_vars

\* a run of either program
InitRuns == Init \/ InitSem

NextRuns == Next \/ NextSem

SpecRuns == InitRuns /\ [][NextRuns]_vars

----------------------------------------------------------------------------
(* A run of the row-semaphore variant that plans two rows, in which the    *)
(* ticker goes on after MaxTicks ticks, every goroutine that can take a    *)
(* step takes one and every call of the database returns                   *)

InitSemFair ==
    /\ InitSem
    /\ size = <<"2", "M", "B">>
    /\ ~overwrite
    /\ dbExists

\* a tick after the first MaxTicks ticks; ticks is no longer raised
ShowProgressTickLate ==
    /\ variant = "main"
    /\ mpc = "tick"
    /\ ticks >= MaxTicks
    /\ UNCHANGED ticks
    /\ ShowProgressProbe

\* the steps of one insert task
TaskStep(t) ==
    \/ TaskEnter(t)
    \/ BoundedAttempt(t)
    \/ TaskWake(t)
    \/ TaskLeave(t)
    \/ TaskRelease(t)
    \/ TaskReport(t)

\* the steps of generateData and main of the row-semaphore variant
SemControllerStep ==
    \/ EnsureDatabase
    \/ CreateTable
    \/ ParseSizeStep
    \/ Baseline
    \/ GoShowProgress
    \/ LaunchTask
    \/ TasksJoined
    \/ SignalDone
    \/ FinalProbe
    \/ Summary
    \/ ShowDBSizes

NextSemFair ==
    \/ NextSem
    \/ ShowProgressTickLate

\* the scheduler of Go runs every goroutine that is ready: generateData,
\* each insert task (whose calls of insertRow and time.Sleep return) and
\* showProgress, whose ticker fires every 5 s
SemFairness ==
    /\ WF_vars(SemControllerStep)
    /\ \A t \in Tasks : WF_vars(TaskStep(t))
    /\ WF_vars(ShowProgressTick \/ ShowProgressTickLate)

SpecSemFair == InitSemFair /\ [][NextSemFair]_vars /\ SemFairness

----------------------------------------------------------------------------
(* A run of the worker-pool variant with a target above 0, in which the    *)
(* ticker goes on after MaxTicks ticks, every goroutine that can take a    *)
(* step takes one, every call of the database returns, and inserts and     *)
(* probes succeed again and again                                          *)

InitFair ==
    /\ Init
    /\ size = <<"1", "K", "B">>
    /\ ~overwrite
    /\ tableNumber = 1

\* a tick after the first MaxTicks ticks; ticks is no longer raised
MonitorTickLate ==
    /\ variant = "pool"
    /\ mpc = "tick"
    /\ ticks >= MaxTicks
    /\ UNCHANGED ticks
    /\ \E ok \in BOOLEAN : MonitorProbe(ok)

\* a tick whose probe succeeds
MonitorReads ==
    /\ variant = "pool"
    /\ mpc = "tick"
    /\ ticks' = IF ticks < MaxTicks THEN ticks + 1 ELSE ticks
    /\ MonitorProbe(TRUE)

\* the steps of generateData and main
ControllerStep ==
    \/ EnsureDatabase
    \/ GetClient
    \/ CreateTable
    \/ ParseSizeStep
    \/ Baseline
    \/ LaunchWorker
    \/ LaunchMonitor
    \/ WaitReturns
    \/ FinalProbe
    \/ Summary
    \/ ShowDBSizes

NextFair ==
    \/ Next
    \/ MonitorTickLate

\* the scheduler of Go runs every goroutine that is ready and the ticker
\* fires every second (weak fairness of each goroutine's step); db.Exec
\* returns; some INSERT succeeds again and again while one can, and the
\* probe of a tick succeeds again and again (strong fairness)
Fairness ==
    /\ WF_vars(ControllerStep)
    /\ \A w \in W : WF_vars(WorkerCheck(w))
    /\ \A w \in W : WF_vars(InsertDone(w) \/ InsertFail(w))
    /\ SF_vars(\E w \in W : InsertDone(w))
    /\ WF_vars(MonitorTick \/ MonitorTickLate)
    /\ SF_vars(MonitorReads)

SpecFair == InitFair /\ [][NextFair]_vars /\ Fairness

----------------------------------------------------------------------------
(* One run of the batch variant (src/unnamed/part_000): generateData, its  *)
(* budget loop and the table tasks of each batch.  Sizes are counted in KB *)
(* and every row holds 1 KB.                                               *)

\* targets of no batch, one batch (below and at the batch size), two
\* batches (1 KB and 100 MB above it) and three batches
BatchSizes == { <<"0", "K", "B">>, <<"1", "K", "B">>, <<"5", "K", "B">>,
                <<"1", "0", "0", "M", "B">>,
                <<"1", "0", "2", "4", "0", "1", "K", "B">>,
                <<"2", "0", "0", "M", "B">>, <<"2", "0", "1", "M", "B">> }

InitBatch ==
    /\ size \in BatchSizes
    /\ variant = "batch"
    /\ pres = NotRun
    /\ overwrite = FALSE
    /\ concurrency \in 1..MaxConcurrency
    /\ tableNumber = 1
    /\ dbExists \in BOOLEAN
    /\ tables = {}
    /\ dbSize = IF dbExists THEN PreBytes ELSE 0
    /\ emptyBytes = 0
    /\ dbAtStart = DbSnapshot
    /\ ctl = "ensureDatabase"
    /\ RunIdle
    /\ FormatIdle
    /\ TaskIdle
    /\ ProbeIdle
    /\ BatchIdle

\* remainingSize, err := opt.parseSize()
BatchParse ==
    /\ ctl = "batchParse"
    /\ pres' = ParseOf(variant, size)
    /\ IF pres'.status = "ok"
       THEN /\ remainingSize' = pres'.bytes
            /\ ctl' = "budget"
            /\ UNCHANGED <<exitStatus, genErr>>
       ELSE /\ Fail("parse")
            /\ UNCHANGED remainingSize
    /\ UNCHANGED <<cfgVars, envVars, refreshed, prbVars, dbVars, events,
                   tableIdx, launched, desiredAmount, initialSize, finalSize,
                   bytesInserted, provErr, printed, cancelled, wrkVars,
                   monVars, variant, othVars, rowNumber, btask, batches,
                   plannedRows>>

\* injectable := math.Min(float64(remainingSize), quarterGB)
Injectable(remaining) == IF remaining < quarterGB THEN remaining ELSE quarterGB

\* int(math.Ceil(x / y)) for x >= 0 and y >= 1
CeilDiv(x, y) == (x + y - 1) \div y

\* int(math.Ceil(perThreadInjectable)) with perThreadInjectable :=
\* injectable / float64(opt.concurrency)
RowsPerTask_floor(injectable) == injectable \div concurrency

RowsPerTask(injectable) == CeilDiv(injectable, concurrency)

\* for remainingSize > 0 {: one batch is started, opt.concurrency times
\* wg.Add(1); go opt.createTable(&wg, randSeq(10), rowNumber); then wg.Wait()
BatchStart ==
    /\ ctl = "budget"
    /\ remainingSize > 0
    /\ rowNumber' = RowsPerTask(Injectable(remainingSize))
    /\ btask' = [w \in W |-> IF w <= concurrency THEN "run" ELSE "idle"]
    /\ batches' = batches + 1
    /\ plannedRows' = plannedRows + concurrency * rowNumber'
    /\ ctl' = "batchWait"
    /\ UNCHANGED <<cfgVars, envVars, refreshed, prbVars, dbVars, events,
                   tableIdx, launched, desiredAmount, initialSize, finalSize,
                   bytesInserted, provErr, genErr, exitStatus, printed,
                   cancelled, wrkVars, monVars, prsVars, othVars,
                   remainingSize>>

\* createTable: a client of its own, CREATE TABLE under a random name,
\* rowNumber INSERTs of 1 KB each, showTableSize; the deferred wg.Done()
\* runs on every return.  The task ends with all its rows inserted or, on
\* an error, with none or a part of them (here: half).
TableTask(w) ==
    /\ btask[w] = "run"
    /\ \E n \in {rowNumber, 0, rowNumber \div 2} :
         /\ rows' = rows + n
         /\ dbSize' = dbSize + n * OneKB
    /\ btask' = [btask EXCEPT ![w] = "returned"]
    /\ events' = events \cup {"connect", "createtable", "insert"}
    /\ UNCHANGED <<cfgVars, envVars, refreshed, prbVars, dbExists, tables,
                   ctlVars, printed, cancelled, wpc, wtbl, werr, monVars,
                   prsVars, othVars, remainingSize, rowNumber, batches,
                   plannedRows>>

\* wg.Wait() returns; err = opt.showDBSize(); if err != nil { return err };
\* remainingSize -= quarterGB
BatchShowDBSize ==
    /\ ctl = "batchWait"
    /\ \A w \in W : btask[w] # "run"
    /\ \E o \in ShowOutcomes :
         IF o = "ok"
         THEN /\ printed' = Output("sizes", <<>>)
              /\ remainingSize' = remainingSize - quarterGB
              /\ ctl' = "budget"
              /\ UNCHANGED <<exitStatus, genErr>>
         ELSE /\ printed' = IF o = "row" THEN Output("sizesCut", <<>>)
                            ELSE printed
              /\ Fail("showdb")
              /\ UNCHANGED remainingSize
    /\ UNCHANGED <<cfgVars, envVars, refreshed, prbVars, dbVars, events,
                   tableIdx, launched, desiredAmount, initialSize, finalSize,
                   bytesInserted, provErr, cancelled, wrkVars, monVars,
                   prsVars, othVars, rowNumber, btask, batches, plannedRows>>

\* the loop ends on remainingSize <= 0: return nil, and main returns
BatchReturn ==
    /\ ctl = "budget"
    /\ remainingSize <= 0
    /\ ctl' = "done"
    /\ exitStatus' = MainExit("none")
    /\ UNCHANGED <<cfgVars, envVars, batVars, refreshed, prbVars, dbVars,
                   events, tableIdx, launched, desiredAmount, initialSize,
                   finalSize, bytesInserted, provErr, genErr, printed,
                   cancelled, wrkVars, monVars, prsVars, othVars>>

NextBatch ==
    \/ EnsureDatabase
    \/ BatchParse
    \/ BatchStart
    \/ \E w \in W : TableTask(w)
    \/ BatchShowDBSize
    \/ BatchReturn

SpecBatch == InitBatch /\ [][NextBatch]_vars

----------------------------------------------------------------------------
(* Properties                                                              *)

Provisioned == dbExists /\ (0..(tableNumber - 1)) \subseteq tables

\* C1: in the worker-pool variant the number of INSERT statements in flight
\* never exceeds concurrency: at most concurrency workers are ever started,
\* each has at most one statement in flight, and once the monitor has been
\* started exactly concurrency workers have been launched and no more follow.
C1_InFlightBounded ==
    /\ InFlight <= concurrency
    /\ Started <= concurrency
    /\ Started = launched
    /\ (mpc # "idle" => Started = concurrency)

C1_Witness == concurrency >= 2 /\ InFlight = concurrency

\* C2: whenever cancellation is raised, the monitor has completed at least
\* one tick and its last successful reading satisfies
\* current - initial >= target.
C2_CancelOnlyAfterReached ==
    cancelled => /\ ticks >= 1
                 /\ curSize >= 0
                 /\ curSize - initialSize >= desiredAmount

C2_Witness == cancelled /\ desiredAmount > 0 /\ initialSize > 0

\* C3: for every target >= 0, the monitor stops (and cancellation is raised)
\* on the first tick whose probe succeeds with current - initial >= target:
\* a monitor that is still ticking after a successful reading has read a
\* growth below the target.
C3_StopsOnFirstReachedReading ==
    (mpc = "tick" /\ curSize >= 0 /\ desiredAmount >= 0)
        => curSize - initialSize < desiredAmount

\* C4: once the final size read has begun, every worker and the monitor
\* have returned: no INSERT is in flight and none can start.
C4_FinalReadAfterJoin ==
    ctl \in {"final", "summary", "showdb", "done"}
        => /\ \A w \in W : wpc[w] \in {"idle", "done"}
           /\ InFlight = 0
           /\ mpc = "done"

C4_Witness == ctl = "final" /\ concurrency >= 2 /\ rows >= 1

\* C5: a worker or the monitor runs only after provisioning succeeded and
\* the baseline was read; the baseline is the size of the schema without
\* any row of this run; the monitor is started after all concurrency
\* workers, and no INSERT is issued before the baseline probe.
C5_BaselineBeforeWorkers ==
    /\ (Started > 0 \/ mpc # "idle")
          => /\ Provisioned
             /\ "probe" \in events
             /\ initialSize + rows * RowBytes = dbSize
    /\ "insert" \in events => Started > 0
    /\ mpc # "idle" => Started = concurrency

C5_Witness == /\ Started = concurrency
              /\ mpc = "tick"
              /\ initialSize = PreBytes
              /\ rows > 0

\* C6: when the summary is reached the final reading is not below the
\* baseline, and the bytes-inserted figure of the summary is their
\* difference and is never negative.
C6_InsertedNonNegative ==
    /\ ctl \in {"summary", "showdb", "done"} => finalSize - initialSize >= 0
    /\ ctl = "done" => /\ bytesInserted >= 0
                       /\ bytesInserted = finalSize - initialSize

C6_Witness == ctl = "done" /\ bytesInserted > 0 /\ initialSize > 0

\* C7: when a provisioning call returned an error the run has ended with a
\* non-zero status and no probe was taken, no worker and no monitor was
\* started and no INSERT was issued.
C7_ProvisionFailureAborts ==
    provErr # "none"
        => /\ ctl = "failed"
           /\ exitStatus # 0 /\ exitStatus # -1
           /\ "probe" \notin events
           /\ "insert" \notin events
           /\ Started = 0
           /\ mpc = "idle"

C7_Witness == provErr = "ping" /\ ctl = "failed" /\ exitStatus = PanicStatus

\* C8: when parseSize fails on a malformed size, no connection was opened
\* and no database or table was created or dropped before the error.
C8_ParseBeforeConnect ==
    (ctl = "failed" /\ pres.status = "err") => events = {}

\* ---- size strings, as the specification describes them ----

\* a non-negative integer or fractional magnitude: digits with at most one
\* period and at least one digit
IsMagnitude(m) ==
    /\ \A i \in 1..Len(m) : m[i] \in Digits \cup {"."}
    /\ Cardinality({i \in 1..Len(m) : m[i] = "."}) <= 1
    /\ \E i \in 1..Len(m) : m[i] \in Digits

\* the magnitude is MagNum(m) / MagDen(m)
MagNum(m) == DecVal(SelectSeq(m, LAMBDA c : c # "."))
MagDen(m) == IF \E i \in 1..Len(m) : m[i] = "."
             THEN Pow10(Len(m) - (CHOOSE i \in 1..Len(m) : m[i] = "."))
             ELSE 1


\* b is num/den * 1024^k truncated to an integer (num >= 0)
IsTruncOf(b, num, den, k) ==
    CASE k = 0 -> b * den <= num /\ num < (b + 1) * den
      [] k = 1 -> b * den <= num * 1024 /\ num * 1024 < (b + 1) * den
      [] k = 2 -> b * den <= num * OneMB /\ num * OneMB < (b + 1) * den
      [] k = 3 -> LET h == b \div 1024
                      l == b % 1024
                      r == num * OneMB - h * den
                  IN  /\ h * den <= num * OneMB /\ num * OneMB < (h + 1) * den
                      /\ l * den <= r * 1024 /\ r * 1024 < (l + 1) * den

SuffixPower(u) == CASE u = <<"B">> -> 0
                    [] u = <<"K", "B">> -> 1
                    [] u = <<"M", "B">> -> 2
                    [] u = <<"G", "B">> -> 3

ParsesAs(units) ==
    (variant = "pool" /\ pres.status # "none")
        => \A k \in 0..Len(size) :
             (IsMagnitude(Take(size, k)) /\ Drop(size, k) \in units)
                 => /\ pres.status = "ok"
                    /\ IsTruncOf(pres.bytes, MagNum(Take(size, k)),
                                 MagDen(Take(size, k)), SuffixPower(Drop(size, k)))

IsNumeric(m) == \/ IsMagnitude(m)
                \/ (m # <<>> /\ m[1] \in {"+", "-"} /\ IsMagnitude(Drop(m, 1)))

KnownUnits == {<<"B">>, <<"K", "B">>, <<"M", "B">>, <<"G", "B">>,
               <<"K">>, <<"M", "i">>, <<"G", "i">>}

\* no reading of the string as a numeric part followed by a unit that any
\* variant or the specification recognizes
Malformed(s) ==
    ~ \E k \in 0..Len(s) : IsNumeric(Take(s, k)) /\ Drop(s, k) \in KnownUnits

\* C10: in every variant, parseSize returns an error whenever the unit is
\* not a recognized one or the numeric part is not parseable (strings
\* shorter than two characters included); it neither crashes nor returns a
\* byte count for such a string.
C10_MalformedGivesError ==
    (pres.status # "none" /\ Malformed(size)) => pres.status = "err"

\* ---- formatSize ---------------------------------------------------------

\* the part of a formatted size after its space: the unit
FormattedUnit(f) == Drop(f, CHOOSE i \in 1..Len(f) : f[i] = " ")

\* the formatted magnitude carries a minus sign
FormattedNegative(f) == f[1] = "-"

UnitLabels == {<<"B">>, <<"K", "B">>, <<"M", "B">>, <<"G", "B">>}

\* the number of bytes of a unit
UnitBytes(u) == CASE u = <<"B">> -> 1
                  [] u = <<"K", "B">> -> OneKB
                  [] u = <<"M", "B">> -> OneMB
                  [] u = <<"G", "B">> -> OneGB

\* a magnitude followed by one of the given units
ValidSize(s, units) ==
    \E k \in 0..Len(s) : IsMagnitude(Take(s, k)) /\ Drop(s, k) \in units

\* parseSize has run on size and, where it returned a byte count, formatSize
\* and the second parseSize have run too
RoundTripDone ==
    /\ variant = "pool"
    /\ pres.status # "none"
    /\ (pres.status = "ok" => rt.status # "none")

\* the second byte count is the first up to the precision of the three
\* decimals formatSize prints: half a thousandth of the unit it chose, and
\* the byte lost to truncation
SameUpToPrecision ==
    LET d == IF rt.bytes >= pres.bytes THEN rt.bytes - pres.bytes
             ELSE pres.bytes - rt.bytes
    IN  d <= UnitBytes(FormattedUnit(fstr)) \div 2000 + 1

C12_LargestUnitAtLeastOne ==
    (ctl = "formatOnly" /\ fstr # <<>> /\ fin >= 1)
        => LET fit == {u \in UnitLabels : fin >= UnitBytes(u)}
           IN  /\ FormattedUnit(fstr) \in fit
               /\ \A u \in fit : UnitBytes(u) <= UnitBytes(FormattedUnit(fstr))

\* C12 (as amended): for every byte count n >= 1, formatSize chooses the
\* largest of KB, MB, GB in which the value is greater than 1, and B when
\* there is none, so that 1024 is shown in B, 1024^2 in KB and 1024^3 in MB.
C12_LargestUnitAboveOne ==
    (ctl = "formatOnly" /\ fstr # <<>> /\ fin >= 1)
        => LET fit == {u \in UnitLabels : u = <<"B">> \/ fin > UnitBytes(u)}
           IN  /\ FormattedUnit(fstr) \in fit
               /\ \A u \in fit : UnitBytes(u) <= UnitBytes(FormattedUnit(fstr))

C12_Witness == /\ ctl = "formatOnly"
               /\ fin = OneGB
               /\ fstr = <<"1", "0", "2", "4", ".", "0", "0", "0", " ", "M", "B">>

\* C13: formatSize compares with size <= threshold: n <= 1024 is shown in
\* B, 1024 < n <= 1024^2 in KB, 1024^2 < n <= 1024^3 in MB and n > 1024^3
\* in GB; a value equal to a threshold is shown in the smaller unit.
C13_ThresholdInSmallerUnit ==
    (ctl = "formatOnly" /\ fstr # <<>>)
        => FormattedUnit(fstr) =
             IF fin <= OneKB THEN <<"B">>
             ELSE IF fin <= OneMB THEN <<"K", "B">>
             ELSE IF fin <= OneGB THEN <<"M", "B">>
             ELSE <<"G", "B">>

C13_Witness == /\ ctl = "formatOnly"
               /\ fin = OneMB
               /\ fstr = <<"1", "0", "2", "4", ".", "0", "0", "0", " ", "K", "B">>

PastLoop(t) == tpc[t] \in {"leave", "release", "report", "done"}

\* C15: in the row-semaphore variant each insert task makes between 1 and
\* 100 attempts of the same insert into the same table; attempt k + 1 is
\* made only if attempt k failed with "Too many connections" and after the
\* backoffs that follow each of the k attempts have been slept; a success or
\* any other error ends the attempts; a task whose insert succeeds, on
\* attempt 100 too, ends as a successful insert and the run is not aborted.
C15_RetryDiscipline ==
    /\ [](\A t \in Tasks :
            /\ attempts[t] <= MaxTries
            /\ (PastLoop(t) => attempts[t] >= 1)
            /\ (tpc[t] = "done" /\ tLast[t] = "ok"
                  => rows = 1 /\ exitStatus = -1 /\ ctl = "taskOnly"))
    /\ [][\A t \in Tasks :
            /\ attempts'[t] # attempts[t]
                 => /\ attempts'[t] = attempts[t] + 1
                    /\ try[t] = attempts[t]
                    /\ (attempts[t] >= 1
                          => tLast[t] = "tmc" /\ tTable'[t] = tTable[t])
            /\ tLast[t] \in {"ok", "other"} => attempts'[t] = attempts[t]]_vars

C15_Witness == \E t \in Tasks : /\ tpc[t] = "done"
                                /\ attempts[t] = MaxTries
                                /\ try[t] = MaxTries - 1
                                /\ tLast[t] = "ok"
                                /\ rows = 1

\* C18: in the row-semaphore variant, whenever the last attempt of an insert
\* task returned an error, the task prints the failure message with the
\* table name and the reason.
C18_FailureReported ==
    \A t \in Tasks :
        (tpc[t] = "done" /\ tLast[t] \in {"tmc", "other"}) => tPrinted[t]

\* ---- errors during the run of the worker-pool variant --------------------

\* C16: in the worker-pool variant a worker whose insert failed with "Too
\* many connections" is suspended for the backoff interval before its next
\* attempt: the step that follows the failure does not issue a statement.
C16_BackoffBeforeRetry ==
    [][\A w \in W :
         (wpc[w] = "check" /\ werr[w] = "tmc") => wpc'[w] # "exec"]_vars

\* C17: in the worker-pool variant an insert error is contained in the
\* worker it occurs in: the error is printed, the worker goes on to the next
\* iteration of its loop without returning, cancellation is not raised, the
\* other workers, the monitor and the controller are left as they are and
\* the run is not aborted.
C17_InsertErrorContained ==
    [][\A w \in W :
         (wpc[w] = "exec" /\ werr'[w] # "none")
            => /\ wpc'[w] = "check"
               /\ werr'[w] \in InsertErrors
               /\ cancelled' = cancelled
               /\ \A v \in W \ {w} : /\ wpc'[v] = wpc[v]
                                     /\ werr'[v] = werr[v]
                                     /\ wtbl'[v] = wtbl[v]
               /\ monVars' = monVars
               /\ ctlVars' = ctlVars
               /\ exitStatus' = -1
               /\ rows' = rows
               /\ dbVars' = dbVars]_vars

C17_Witness ==
    \E w \in W, v \in W :
        /\ w # v
        /\ wpc[w] = "check" /\ werr[w] = "other"
        /\ wpc[v] = "exec"
        /\ mpc = "tick" /\ ~cancelled
        /\ ctl = "wait" /\ exitStatus = -1

\* C19: in the worker-pool variant a probe that fails on a tick of the
\* monitor is printed and the monitor goes on to the next tick: the failure
\* does not end the monitor, does not raise cancellation, does not change
\* previousSize and does not abort the run.
C19_TickProbeErrorTolerated ==
    [][(mpc = "tick" /\ ticks' # ticks /\ printed'.kind = "probeErr")
          => /\ mpc' = "tick"
             /\ cancelled' = cancelled
             /\ previousSize' = previousSize
             /\ ctl' = "wait"
             /\ exitStatus' = -1
             /\ wrkVars' = wrkVars]_vars

C19_Witness == /\ printed.kind = "probeErr"
               /\ mpc = "tick"
               /\ ticks >= 1
               /\ ~cancelled
               /\ Live > 0
               /\ rows > 0
               /\ previousSize = initialSize

\* C20 (as stated): in the worker-pool variant a probe error is fatal only
\* on the final read: a probe failure at the baseline read or on a monitor
\* tick does not abort the run, and once workers have started the failure
\* of the final read is the only error that moves the controller to Failed.
C20_OnlyFinalProbeFatal ==
    /\ genErr = "baseline" => ctl # "failed"
    /\ (printed.kind = "probeErr" /\ mpc = "tick") => ctl = "wait"
    /\ (ctl = "failed" /\ Started > 0) => genErr = "final"

\* C20 (as amended): a probe error is fatal on the baseline read and on the
\* final read: a failure of the baseline read aborts the run before any
\* worker or the monitor has started; a probe failure on a monitor tick
\* does not abort the run; once workers have started, the only errors that
\* move the controller to Failed are the failure of the final read, which
\* happens after all workers and the monitor have returned, and the failure
\* of the closing size table (showDBSizes).
C20_ProbeFatalAtBaselineAndFinal ==
    /\ genErr = "baseline"
         => /\ ctl = "failed" /\ exitStatus = PanicStatus
            /\ Started = 0 /\ mpc = "idle"
    /\ genErr = "final"
         => /\ ctl = "failed" /\ exitStatus = PanicStatus
            /\ WaitGroupDone
    /\ (printed.kind = "probeErr" /\ mpc = "tick")
         => ctl = "wait" /\ exitStatus = -1
    /\ (ctl = "failed" /\ Started > 0) => genErr \in {"final", "showdb"}

C20_Witness == /\ genErr = "final"
               /\ ctl = "failed"
               /\ Started > 0
               /\ rows > 0

\* ---- getDatabaseSize ------------------------------------------------------

\* the call has issued the statement k
Issued(k) == \E i \in 1..Len(pstmts) : pstmts[i].stmt = k

ProvisioningDone == /\ provErr = "none"
                    /\ ctl \notin {"ensureDatabase", "getClient", "createTables"}

\* the baseline reading has been taken
BaselineRead == ctl = "launch"

OwnTables == 0..(tableNumber - 1)

\* C22 (as stated): with overwrite set and a schema that existed with a
\* size above 0, the baseline reading is 0
C22_BaselineZeroAfterOverwrite ==
    (overwrite /\ dbAtStart.exists /\ dbAtStart.size > 0 /\ BaselineRead)
        => initialSize = 0

\* C22 (amended): with overwrite set and a schema that existed with a size
\* above 0, the baseline reading holds nothing of what the schema held: it
\* is the footprint the server reports for the N tables just created, each
\* without rows (0 when the storage engine reports 0 for such a table)
C22_BaselineOnlyNewTables ==
    (overwrite /\ dbAtStart.exists /\ dbAtStart.size > 0 /\ BaselineRead)
        => /\ initialSize = tableNumber * emptyBytes
           /\ dbSize = initialSize
           /\ tables = OwnTables
           /\ "dropdb" \in events

C22_Witness == /\ overwrite
               /\ dbAtStart.exists
               /\ dbAtStart.size > tableNumber * EmptyTableBytes
               /\ dbAtStart.tables = OwnTables
               /\ tableNumber >= 2
               /\ BaselineRead
               /\ emptyBytes > 0

LastReading == IF curSize = -1 THEN initialSize ELSE curSize

\* a tick of the monitor whose probe succeeds
ReadingTick == ticks' = ticks + 1 /\ printed'.kind # "probeErr"

\* C27: on a tick whose probe succeeds the monitor prints the progress line
\* if the reading is greater than the reading it last obtained and prints
\* nothing if it is not; the size it compares with (previousSize) is that
\* last reading.
C27_ProgressLineOnIncrease ==
    /\ [][ReadingTick =>
            /\ printed'.kind = "progress" <=> curSize' > LastReading
            /\ printed'.kind = "quiet" <=> curSize' <= LastReading
            /\ printed'.kind = "progress" => printed'.args[2] = curSize']_vars
    /\ [](mpc # "idle" => previousSize = LastReading)

C27_Witness == /\ printed.kind = "quiet"
               /\ curSize > initialSize
               /\ ticks >= 2
               /\ rows >= 1

\* C28: once cancellation is raised no worker enters the default branch of
\* its select again, so that each worker finishes at most the one INSERT
\* it had begun (at most C in all); that statement is not aborted: the
\* worker leaves it only when db.Exec has returned; and the first select a
\* worker reaches after cancellation makes it return.
C28_CooperativeCancel ==
    /\ [][cancelled =>
            \A w \in W :
               /\ wpc'[w] = "exec" => wpc[w] = "exec"
               /\ (wpc[w] = "check" /\ wpc'[w] # "check") => wpc'[w] = "done"
               /\ wpc[w] = "done" => wpc'[w] = "done"]_vars
    /\ [][\A w \in W :
            (wpc[w] = "exec" /\ wpc'[w] # "exec")
               => /\ wpc'[w] = "check"
                  /\ rows' = rows + 1 \/ werr'[w] # "none"]_vars
    /\ [](cancelled => InFlight <= concurrency)

C28_Witness == /\ cancelled
               /\ concurrency >= 2
               /\ \E w \in W : wpc[w] = "done"
               /\ \E w \in W : wpc[w] = "check" /\ werr[w] # "none"
               /\ rows = MaxRows

\* C30: a worker returns only after cancellation has been raised; a failed
\* INSERT, however many there were, leaves the worker in its loop, so that
\* from the launch of the last worker to cancellation C workers are live.
C30_WorkersLiveUntilCancel ==
    /\ []((\E w \in W : wpc[w] = "done") => cancelled)
    /\ []((ctl = "wait" /\ ~cancelled) => Live = concurrency)
    /\ []((ctl = "launch" /\ ~cancelled) => Live = launched)
    /\ [][\A w \in W : (wpc[w] = "exec" /\ werr'[w] # "none")
                           => wpc'[w] = "check"]_vars

C30_Witness == /\ ctl = "wait"
               /\ ~cancelled
               /\ concurrency >= 2
               /\ \A w \in 1..concurrency : werr[w] # "none"
               /\ ticks >= 1

\* ---- the run of the row-semaphore variant ----------------------------------

\* C24 (as stated): a run of the row-semaphore variant that reaches the
\* summary computes the throughput without a division by zero
C24_ThroughputWithoutDivisionByZero ==
    variant = "main" => genErr # "divzero"

\* the tables the program of the run is to work on
TableRange == IF variant = "pool" THEN 0..(tableNumber - 1) ELSE 1..tableNumber

\* C26: in a run of either variant the tables that exist once provisioning
\* has succeeded, the table of every INSERT and the tables named by the
\* refresh statements of every size probe are those of one range:
\* table0..table{N-1} in the worker-pool variant, table1..table{N} in the
\* row-semaphore variant (N >= 1).
C26_OneTableRange ==
    /\ tableNumber >= 1
    /\ ProvisioningDone => tables = TableRange
    /\ \A w \in W : wpc[w] = "exec" => (wtbl[w] \in TableRange /\ wtbl[w] \in tables)
    /\ \A t \in Tasks : tpc[t] \notin {"idle", "enter"}
                           => (tTable[t] \in TableRange /\ tTable[t] \in tables)
    /\ "probe" \in events => (refreshed = TableRange /\ refreshed = tables)

C26_Witness == /\ tableNumber >= 2
               /\ variant = "main"
               /\ \E t \in Tasks : tpc[t] = "attempt" /\ tTable[t] = tableNumber
               /\ refreshed = tables
               /\ ticks >= 1

\* ---- termination of the worker-pool variant --------------------------------

\* the workers and the monitor run
Running == ctl = "wait" /\ desiredAmount > 0 /\ concurrency >= 1

\* cancellation was raised and every worker and the monitor have returned
Drained == /\ cancelled
           /\ mpc = "done"
           /\ \A w \in W : wpc[w] \in {"idle", "done"}

\* the final reading was taken and the controller went on to the summary
Completed == ctl \in {"summary", "showdb", "done"} \/ genErr \in {"divzero", "showdb"}

\* C29 (as stated): a run with C >= 1 and a target above 0 that has
\* started its workers leads to cancellation, the return of every worker,
\* the final reading and the controller at Completed
C29_RunCompletes == Running ~> (Drained /\ "probe" \in events /\ Completed)

\* C29 (amended): such a run leads to cancellation, the return of every
\* worker and the final probe, after which the controller is at Completed
\* if the probe returned a reading and at Failed if it returned an error
C29_RunTerminates ==
    Running ~> (/\ Drained
                /\ "probe" \in events
                /\ Completed \/ (ctl = "failed" /\ genErr = "final"))

C29_Witness == /\ ctl = "done"
               /\ Drained
               /\ concurrency >= 2
               /\ rows >= 2
               /\ ticks = MaxTicks
               /\ initialSize > 0

\* ---- the reading at Completed -----------------------------------------------

\* C31: in the worker-pool variant, where the reported size of the schema
\* never decreases during the run, whenever the controller is at Completed
\* the final reading exceeds the baseline by at least the target:
\* final - initial >= target
C31_CompletedCoversTarget ==
    (variant = "pool" /\ Completed) => finalSize - initialSize >= desiredAmount

C31_Witness == /\ variant = "pool"
               /\ ctl = "done"
               /\ desiredAmount > 0
               /\ initialSize > 0
               /\ curSize - initialSize = desiredAmount
               /\ finalSize > curSize

\* ---- the semaphore of the row-semaphore variant -----------------------------

\* the tasks between activeWorkers++ and activeWorkers--
ActiveTasks ==
    Cardinality({t \in Tasks : tpc[t] \in {"attempt", "sleep", "leave"}})

\* the tasks whose element is in workerLimiter: started and not yet past
\* <-workerLimiter
SeatHolders ==
    Cardinality({t \in Tasks :
                    tpc[t] \in {"enter", "attempt", "sleep", "leave", "release"}})

\* every task that was started has returned and the launch loop is over
AllTasksReturned ==
    /\ variant = "main"
    /\ mpc # "idle"
    /\ launched >= TotalRows
    /\ \A t \in Tasks : tpc[t] \in {"idle", "done"}

\* the launch loop waits at workerLimiter <- struct{}{}
LaunchBlocked ==
    /\ variant = "main"
    /\ ctl = "launch"
    /\ mpc # "idle"
    /\ launched < TotalRows
    /\ seats >= concurrency

\* C32: in the row-semaphore variant with C >= 1, in every state
\* activeWorkers <= seats held in workerLimiter <= C and
\* activeWorkers <= maxActiveWorkers <= C, where activeWorkers counts the
\* tasks between their increment and their decrement and the seats those
\* started and not past their release; maxActiveWorkers is at every step
\* the largest number of active tasks so far; a launch loop that waits for
\* a seat gets one, and the run leads to the return of all tasks, after
\* which activeWorkers = 0 and the semaphore is empty
C32_SemaphoreDiscipline ==
    /\ [](/\ concurrency >= 1
          /\ activeWorkers = ActiveTasks
          /\ seats = SeatHolders
          /\ activeWorkers <= seats
          /\ seats <= concurrency
          /\ activeWorkers <= maxActiveWorkers
          /\ maxActiveWorkers <= concurrency
          /\ AllTasksReturned => (activeWorkers = 0 /\ seats = 0))
    /\ [][maxActiveWorkers' = IF ActiveTasks' > maxActiveWorkers
                              THEN ActiveTasks' ELSE maxActiveWorkers]_vars
    /\ (LaunchBlocked ~> ~LaunchBlocked)
    /\ ((ctl = "launch" /\ mpc # "idle") ~> AllTasksReturned)

C32_Witness == /\ AllTasksReturned
               /\ ctl = "signal"
               /\ concurrency = 1
               /\ launched = 2
               /\ maxActiveWorkers = 1
               /\ \E t \in Tasks : try[t] >= 1

\* ---- the handshake with showProgress ----------------------------------------

\* C33 (as stated): in the row-semaphore variant, once all insert tasks
\* have returned, the send on the done channel completes and the
\* controller goes on to the final reading and the summary, whatever
\* showProgress did before
C33_HandshakeCompletes ==
    (AllTasksReturned /\ ctl = "signal") ~> (variant = "main" /\ ctl # "signal")

\* ---- the planned workload of the row-semaphore variant ----------------------

\* C34 (as stated): in the row-semaphore variant with target T and N >= 1
\* tables, floor(T / (N * 2^20)) insert tasks are launched, each inserts
\* at most one row, of a payload of 2^19 bytes, and the tasks' payloads
\* together cover the target: tasks * 2^19 >= T
C34_PlanCoversTarget ==
    (variant = "main" /\ pres.status = "ok" /\ ctl # "parseSize")
        => /\ tableNumber >= 1
           /\ launched <= TotalRows
           /\ AllTasksReturned => launched = TotalRows
           /\ rows <= launched
           /\ TotalRows * PayloadBytes >= desiredAmount

\* ---- the connections of the shared client ----------------------------------

\* C36 (as stated): in the worker-pool variant a call of getDatabaseSize
\* that has returned holds no connection of the pool (every result set it
\* got is closed), the connections checked out never exceed C + 1 and stay
\* below max(140, C + 10), so that a statement always finds a connection
C36_ProbeReleasesConnections ==
    variant = "pool" =>
        /\ ppc = "returned" => unclosed = 0
        /\ unclosed <= concurrency + 1
        /\ unclosed < MaxOpenConns
        /\ ConnAvailable

\* ---- the budget loop of the batch variant ----------------------------------

\* the target in KB, once parseSize has returned it
BatchTarget == pres.bytes

\* a run of the batch variant with a target above 0 and C >= 1
BatchRun == /\ variant = "batch"
            /\ pres.status = "ok"
            /\ BatchTarget > 0
            /\ concurrency >= 1

\* the number of batches the target asks for: ceil(T / 102400)
BatchesDue == CeilDiv(BatchTarget, quarterGB)

\* the part of the target handed to the batches started so far
BudgetSpent == IF batches * quarterGB < BatchTarget THEN batches * quarterGB
               ELSE BatchTarget

\* generateData has returned
BatchOver == ctl \in {"done", "failed"}

\* C35 (as stated): in the batch variant with T > 0 and C >= 1 the budget
\* loop ends after exactly ceil(T / 102400) batches, every batch has
\* exactly C table tasks, and the rows planned over all batches are at
\* least T and exceed T by less than C per batch
C35_BudgetLoop ==
    BatchRun =>
        /\ BatchOver => batches = BatchesDue
        /\ ctl = "batchWait"
              => Cardinality({w \in W : btask[w] # "idle"}) = concurrency
        /\ BatchOver => /\ plannedRows >= BatchTarget
                        /\ plannedRows - BatchTarget <= (concurrency - 1) * batches

\* C35 (amended): the loop ends after exactly ceil(T / 102400) batches
\* unless showDBSize returns an error after a batch, which ends
\* generateData at that batch with that error; it never runs more batches.
\* Every batch starts exactly C table tasks, and only when every task of
\* the batch before has returned.  After each batch the rows planned so
\* far are at least the part of T handed out so far and exceed it by less
\* than C per batch; at a normal end that part is T.
C35_BudgetLoopUnlessShowFails ==
    /\ [](BatchRun =>
            /\ batches <= BatchesDue
            /\ ctl = "done" => (batches = BatchesDue /\ BudgetSpent = BatchTarget)
            /\ ctl = "failed" => (genErr = "showdb" /\ batches >= 1)
            /\ ctl = "batchWait"
                  => Cardinality({w \in W : btask[w] # "idle"}) = concurrency
            /\ plannedRows >= BudgetSpent
            /\ plannedRows - BudgetSpent <= (concurrency - 1) * batches)
    /\ [][batches' > batches
            => /\ \A w \in W : btask[w] # "run"
               /\ Cardinality({w \in W : btask'[w] = "run"}) = concurrency]_vars

C35_Witness == /\ BatchRun
               /\ ctl = "done"
               /\ batches = 2
               /\ concurrency = 2
               /\ plannedRows = BatchTarget + 1

=============================================================================
